---- MODULE Spec2Model ----
(***************************************************************************)
(* Cloud-ASR-MCP: the tool-call handler of mcp/src/index.ts, the backend   *)
(* adapters (OpenAI, OpenRouter, Voxtral, Gemini, AssemblyAI) and the      *)
(* helpers of mcp/src/utils.ts, as a state machine.                        *)
(*                                                                         *)
(* Conventions.  A JavaScript string that the code inspects character by   *)
(* character is a sequence of one-character strings; a string the code     *)
(* only compares or passes on is a TLA+ string.  An absent (undefined)     *)
(* or empty argument is "" / 0 / NoPath: the code tests all of them with   *)
(* `!x`.  File sizes are counted in KiB so that the 5 GiB ceiling fits a   *)
(* 32-bit integer; every comparison of the code is kept as written.        *)
(***************************************************************************)
EXTENDS Integers, Sequences, FiniteSets, TLC

VARIABLES
    req,      \* per request slot: position of the handler / adapter and its locals
    disk,     \* the file system: existing path -> size of the file
    now,      \* Date.now(), in milliseconds
    aai,      \* a direct call of transcribeWithAssemblyAI: position and locals
    calc,     \* a pure function under test: its input and its result
    sse       \* SSE mode: the session map, the open connections, the last POST

vars == <<req, disk, now, aai, calc, sse>>

(***************************************************************************)
(* Bounds of the model.                                                    *)
(***************************************************************************)
NumReqs == 2          \* request slots
MaxClock == 1         \* the clock runs over 0..MaxClock

Reqs == 1..NumReqs

(***************************************************************************)
(* types.ts: size ceilings (KiB) and supported formats.                    *)
(***************************************************************************)
OPENAI_MAX_FILE_SIZE_BYTES == 25 * 1024
GEMINI_MAX_FILE_SIZE_BYTES == 100 * 1024
GEMINI_DOWNSAMPLE_THRESHOLD_BYTES == 15 * 1024
ASSEMBLYAI_MAX_FILE_SIZE_BYTES == 5 * 1024 * 1024

SUPPORTED_FORMATS ==
    [e \in {".mp3", ".wav", ".ogg", ".flac", ".aac", ".aiff", ".m4a",
            ".webm", ".mpeg", ".mpga"} |->
        CASE e = ".mp3" -> "audio/mp3"
          [] e = ".wav" -> "audio/wav"
          [] e = ".ogg" -> "audio/ogg"
          [] e = ".flac" -> "audio/flac"
          [] e = ".aac" -> "audio/aac"
          [] e = ".aiff" -> "audio/aiff"
          [] e = ".m4a" -> "audio/mp4"
          [] e = ".webm" -> "audio/webm"
          [] e = ".mpeg" -> "audio/mpeg"
          [] e = ".mpga" -> "audio/mpeg"]

\* String.prototype.toLowerCase on the extensions the model uses.
toLowerCase(e) ==
    CASE e \in {".MP3", ".Mp3"} -> ".mp3"
      [] e \in {".WAV", ".Wav"} -> ".wav"
      [] e = ".OGG" -> ".ogg"
      [] e = ".FLAC" -> ".flac"
      [] e = ".AAC" -> ".aac"
      [] e = ".AIFF" -> ".aiff"
      [] e \in {".M4A", ".m4A"} -> ".m4a"
      [] e = ".WEBM" -> ".webm"
      [] e = ".MPEG" -> ".mpeg"
      [] e = ".MPGA" -> ".mpga"
      [] e = ".TXT" -> ".txt"
      [] e = ".MP4" -> ".mp4"
      [] OTHER -> e

(***************************************************************************)
(* Paths.  A path is [kind, id, ext]: a caller's local file, the temporary *)
(* file of an inline payload, or the transcoder's output                   *)
(* cloud_asr_<ms>.mp3.  path.extname is the ext field.                     *)
(***************************************************************************)
NoPath == [kind |-> "none", id |-> 0, ext |-> ""]
LocalPath(i, e) == [kind |-> "local", id |-> i, ext |-> e]
InlinePath(i, e) == [kind |-> "inline", id |-> i, ext |-> e]

extname(p) == p.ext
existsSync(d, p) == p \in DOMAIN d
unlinkSync(d, p) == [q \in (DOMAIN d) \ {p} |-> d[q]]
writeFile(d, p, size) == [q \in (DOMAIN d) \cup {p} |-> IF q = p THEN size ELSE d[q]]

(***************************************************************************)
(* Strings as sequences of characters.                                     *)
(***************************************************************************)
WhiteSpace == {" ", "\n"}
SentenceEnd == {".", "!", "?"}
Ellipsis == <<".", ".", ".">>

Min(a, b) == IF a < b THEN a ELSE b

\* The positions of s whose character is not white space.
InkPositions(s) == {i \in 1..Len(s) : s[i] \notin WhiteSpace}
MinOf(S) == CHOOSE i \in S : \A j \in S : i <= j
MaxOf(S) == CHOOSE i \in S : \A j \in S : i >= j

trimStart(s) ==
    IF InkPositions(s) = {} THEN <<>> ELSE SubSeq(s, MinOf(InkPositions(s)), Len(s))

trimEnd(s) ==
    IF InkPositions(s) = {} THEN <<>> ELSE SubSeq(s, 1, MaxOf(InkPositions(s)))

trim(s) == trimEnd(trimStart(s))

\* s.substring(a, b), 0-based, b exclusive and clipped to the length.
substring(s, a, b) == SubSeq(s, a + 1, Min(b, Len(s)))

\* s.split(/\s+/): the pieces between maximal runs of white space; a leading
\* or trailing run yields an empty first or last piece, "" yields [""].
\* RunEnds(s) are the last positions of the runs, in order; the k-th piece
\* lies between the (k-1)-th and the k-th run.
RunEnds(s) ==
    SelectSeq([i \in 1..Len(s) |-> i],
              LAMBDA i : s[i] \in WhiteSpace /\ (i = Len(s) \/ s[i + 1] \notin WhiteSpace))
RunStart(s, e) ==
    MinOf({i \in 1..e : \A j \in i..e : s[j] \in WhiteSpace})

splitWhitespace(s) ==
    LET ends == RunEnds(s)
        n == Len(ends)
    IN  [k \in 1..(n + 1) |->
            SubSeq(s, IF k = 1 THEN 1 ELSE ends[k - 1] + 1,
                      IF k = n + 1 THEN Len(s) ELSE RunStart(s, ends[k]) - 1)]

\* words.join(' ')
RECURSIVE joinSpace(_)
joinSpace(words) ==
    IF words = <<>> THEN <<>>
    ELSE IF Len(words) = 1 THEN words[1]
    ELSE words[1] \o <<" ">> \o joinSpace(Tail(words))

\* s.split(/[.!?]/)[0]: the text before the first sentence-terminal mark.
firstSegment(s) ==
    LET marks == {i \in 1..Len(s) : s[i] \in SentenceEnd}
    IN  IF marks = {} THEN s ELSE SubSeq(s, 1, MinOf(marks) - 1)

AudioTranscription ==
    <<"A", "u", "d", "i", "o", " ", "T", "r", "a", "n", "s", "c", "r", "i",
      "p", "t", "i", "o", "n">>

TitleWords == 6
DescriptionLimit == 100

generateTitle(transcript) ==
    LET all == splitWhitespace(transcript)
        words == SubSeq(all, 1, Min(TitleWords, Len(all)))
        title == joinSpace(words) \o (IF Len(all) > TitleWords THEN Ellipsis ELSE <<>>)
    IN  IF title = <<>> THEN AudioTranscription ELSE title

generateDescription(transcript) ==
    LET firstSentence == firstSegment(transcript)
    IN  IF Len(firstSentence) <= DescriptionLimit
        THEN trim(firstSentence) \o <<".">>
        ELSE trim(substring(firstSentence, 0, DescriptionLimit)) \o Ellipsis

(***************************************************************************)
(* utils.ts: validateAudioFile.  The result is "ok" or the error thrown.   *)
(* maxSize = 0 is the omitted parameter (`if (maxSize)`).                  *)
(***************************************************************************)
\* A validation that compares the extension as spelt.
validateAudioFileCaseSensitive(d, filePath, maxSize) ==
    IF ~existsSync(d, filePath) THEN "file_not_found"
    ELSE IF extname(filePath) \notin DOMAIN SUPPORTED_FORMATS
         THEN "unsupported_format"
    ELSE IF maxSize # 0 /\ d[filePath] > maxSize THEN "file_too_large"
    ELSE "ok"

validateAudioFile(d, filePath, maxSize) ==
    IF ~existsSync(d, filePath) THEN "file_not_found"
    ELSE IF toLowerCase(extname(filePath)) \notin DOMAIN SUPPORTED_FORMATS
         THEN "unsupported_format"
    ELSE IF maxSize # 0 /\ d[filePath] > maxSize THEN "file_too_large"
    ELSE "ok"

getMimeType(filePath) ==
    LET ext == toLowerCase(extname(filePath))
    IN  IF ext \in DOMAIN SUPPORTED_FORMATS THEN SUPPORTED_FORMATS[ext] ELSE "audio/mpeg"

getFileSize(d, filePath) == d[filePath]

(***************************************************************************)
(* Model resolution of the adapters.  envModel is the value of the         *)
(* backend's environment variable, "" when it is not set.                  *)
(***************************************************************************)
OPENROUTER_MODELS ==
    [a \in {"gemini-flash", "gemini-pro", "gpt-4o-audio", "voxtral-small", "voxtral-mini"} |->
        CASE a = "gemini-flash" -> "google/gemini-2.5-flash-preview-05-20"
          [] a = "gemini-pro" -> "google/gemini-2.5-pro-preview"
          [] a = "gpt-4o-audio" -> "openai/gpt-4o-audio-preview"
          [] a = "voxtral-small" -> "mistralai/voxtral-small-latest"
          [] a = "voxtral-mini" -> "mistralai/voxtral-mini-latest"]

getDefaultModelOpenAI(envModel) ==
    IF envModel = "gpt-4o-transcribe" \/ envModel = "gpt-4o-mini-transcribe"
    THEN envModel
    ELSE "gpt-4o-transcribe"

getDefaultModelOpenRouter(envModel) ==
    IF envModel # ""
    THEN IF envModel \in DOMAIN OPENROUTER_MODELS THEN OPENROUTER_MODELS[envModel] ELSE envModel
    ELSE OPENROUTER_MODELS["gemini-flash"]

\* A resolution that submits every explicit model as given.
resolveModelVerbatim(model, envModel) ==
    IF model = "" THEN getDefaultModelOpenRouter(envModel) ELSE model

\* openrouter.ts (openai.ts 147-156)
resolveModel(model, envModel) ==
    IF model = "" THEN getDefaultModelOpenRouter(envModel)
    ELSE IF model \in DOMAIN OPENROUTER_MODELS THEN OPENROUTER_MODELS[model]
    ELSE model

\* A default that never reads the environment.
getDefaultModelVoxtralNoEnv(envModel) == "voxtral-mini-latest"

\* voxtral.ts (unnamed/part_003 18-24)
getDefaultModelVoxtral(envModel) ==
    IF envModel = "voxtral-mini-latest" \/ envModel = "voxtral-small-latest"
    THEN envModel
    ELSE "voxtral-mini-latest"

MODEL_NAME == "gemini-2.0-flash"

(***************************************************************************)
(* Requests, responses and tool results.                                   *)
(***************************************************************************)
NoName == [stem |-> "", ext |-> ""]
FileName(stem, e) == [stem |-> stem, ext |-> e]

NoArgs == [file_path |-> NoPath, file_content |-> 0, file_name |-> NoName,
           output_dir |-> "", model |-> ""]

\* ResolvedFile of utils.ts; NoResolved is the handler's initial null.
NoResolved == [filePath |-> NoPath, isTemp |-> FALSE]

\* AudioFileInfo of utils.ts; NoAudioInfo is transcribeWithGemini's initial null.
NoAudioInfo == [processedPath |-> NoPath, mimeType |-> "", needsCleanup |-> FALSE]

NoResponse ==
    [title |-> <<>>, description |-> <<>>, transcript |-> <<>>, timestamp |-> -1,
     timestamp_readable |-> -1, backend |-> "", model |-> ""]

\* formatTimestamp(): both forms are renderings of the one captured instant.
Response(title, description, transcript, backend, model, t) ==
    [title |-> title, description |-> description, transcript |-> transcript,
     timestamp |-> t, timestamp_readable |-> t, backend |-> backend, model |-> model]

NoSettings == [ac |-> 0, ar |-> 0, ba |-> ""]

NoDoc == [dir |-> "", title |-> <<>>, file |-> <<>>]

\* The value the handler returns: { content: [{type:'text', text}], isError }.
\* prefix is "Transcription failed: " for an error caught by the handler's catch.
ErrorResult(prefix, msg) ==
    [isError |-> TRUE, prefix |-> prefix, text |-> msg, response |-> NoResponse,
     saved_to |-> NoDoc]
SuccessResult(response, saved) ==
    [isError |-> FALSE, prefix |-> "", text |-> "", response |-> response,
     saved_to |-> saved]
NoResult == [isError |-> FALSE, prefix |-> "", text |-> "pending",
             response |-> NoResponse, saved_to |-> NoDoc]

\* What an adapter's promise settles to: a thrown error or a response.
Threw(msg) == [threw |-> TRUE, err |-> msg, response |-> NoResponse]
Returned(response) == [threw |-> FALSE, err |-> "", response |-> response]

IdleReq ==
    [pc |-> "idle", name |-> "", args |-> NoArgs, resolvedFile |-> NoResolved,
     resolved |-> FALSE,        \* resolveFileInput was called
     fsOps |-> {},              \* mutating file-system operations of this call
     doc |-> NoDoc,             \* the transcript document this call wrote
     remote |-> {},             \* remote calls issued by this call
     transcoder |-> 0,          \* transcoder processes spawned by this call
     ffmpegArgs |-> NoSettings, \* the settings the transcoder was spawned with
     model |-> "",              \* the model submitted to the remote
     envModel |-> "",           \* the default-model variable the call could read
     replyText |-> <<>>,        \* the text of the generateContent reply
     deletes |-> 0,             \* deletions of the uploaded artifact issued
     deleteFailed |-> FALSE,    \* the deletion of the artifact failed
     unlinkFailed |-> FALSE,    \* the removal of the transcoder's output failed
     audioInfo |-> NoAudioInfo, outputPath |-> NoPath, wrote |-> FALSE,
     uploadedFileName |-> FALSE, fileState |-> "", pending |-> Threw(""),
     ret |-> NoResult]

(***************************************************************************)
(* The environment of the model: the caller's files, the arguments a       *)
(* client sends, and what the remotes reply.                               *)
(***************************************************************************)
\* The caller's local files: a small one, and one on each side of every
\* size the code compares with.
LocalFiles ==
    LET f(i, e, size) == <<LocalPath(i, e), size>>
    IN  { f(1, ".wav", 5 * 1024),
          f(2, ".mp3", GEMINI_DOWNSAMPLE_THRESHOLD_BYTES),
          f(3, ".wav", GEMINI_DOWNSAMPLE_THRESHOLD_BYTES + 1),
          f(4, ".MP3", OPENAI_MAX_FILE_SIZE_BYTES),
          f(5, ".mp3", OPENAI_MAX_FILE_SIZE_BYTES + 1),
          f(6, ".wav", GEMINI_MAX_FILE_SIZE_BYTES),
          f(7, ".wav", GEMINI_MAX_FILE_SIZE_BYTES + 1),
          f(8, ".txt", 1),
          f(10, ".wav", ASSEMBLYAI_MAX_FILE_SIZE_BYTES),
          f(11, ".wav", ASSEMBLYAI_MAX_FILE_SIZE_BYTES + 1) }

InitDisk ==
    [p \in {f[1] : f \in LocalFiles} |-> (CHOOSE f \in LocalFiles : f[1] = p)[2]]

MissingPath == LocalPath(9, ".mp3")

ToolNames ==
    {"openrouter_transcribe", "openrouter_gemini", "openrouter_voxtral",
     "openrouter_gpt4o", "voxtral_transcribe", "gemini_transcribe",
     "gemini_transcribe_raw", "openai_transcribe", "openai_transcribe_economy",
     "assemblyai_transcribe", "no_such_tool"}

\* The tools whose input schema has a `model` property.
TakesModel == {"openrouter_transcribe", "voxtral_transcribe"}

PathArgs == {NoPath, MissingPath} \cup {LocalPath(f[1].id, f[1].ext) : f \in {g \in LocalFiles : g[1].id <= 8}}
ContentArgs == {0, 5 * 1024, GEMINI_DOWNSAMPLE_THRESHOLD_BYTES + 1}
NameArgs == {NoName, FileName("rec", ".mp3"), FileName("notes", ".txt")}
OutputDirs == {"", "/out"}
ModelArgs == {"", "gemini-pro", "vendor/custom-model"}
EnvModels == {"", "gemini-pro", "voxtral-small-latest"}

ArgSpace ==
    [file_path : PathArgs, file_content : ContentArgs, file_name : NameArgs,
     output_dir : OutputDirs, model : ModelArgs]

\* Transcript texts a remote returns: none, and a short one.
HiThere == <<"h", "i", " ", "y", "o", "u", ".", " ", "o", "k">>
Transcripts == {<<>>, HiThere}

(***************************************************************************)
(* index.ts, the CallToolRequestSchema handler.                            *)
(***************************************************************************)
\* utils.ts validateFileExtension (not in the sources at hand; sections 4.1, 8).
validateFileExtension(file_name) ==
    IF toLowerCase(file_name.ext) \in DOMAIN SUPPORTED_FORMATS
    THEN "ok" ELSE "unsupported_format"

\* index.ts 284-321: the checks before the try block; "ok" or the message returned.
ValidateArgs(args) ==
    IF args.file_path = NoPath /\ args.file_content = 0 THEN "missing_file_source"
    ELSE IF args.file_content # 0 /\ args.file_name = NoName THEN "missing_file_name"
    ELSE IF args.file_name # NoName /\ validateFileExtension(args.file_name) # "ok"
         THEN "unsupported_format"
    ELSE "ok"

\* The sources resolveFileInput may take the file from: the inline payload
\* (TRUE) or the local path (FALSE).  With both present the sources at hand do
\* not say which one wins.
SourceChoices(args) ==
    (IF args.file_content # 0 THEN {TRUE} ELSE {})
    \cup (IF args.file_path # NoPath THEN {FALSE} ELSE {})

\* A temporary-file name no existing temporary file has.
FreshIds(d) == {i \in 1..(NumReqs + 1) : \A p \in DOMAIN d : ~(p.kind = "inline" /\ p.id = i)}
FreshId(d) == CHOOSE i \in FreshIds(d) : \A j \in FreshIds(d) : i <= j

\* utils.ts resolveFileInput (not in the sources at hand; section 4.1).
resolveFileInput(d, args, useContent, id) ==
    IF useContent
    THEN LET p == InlinePath(id, args.file_name.ext)
         IN  [err |-> "", file |-> [filePath |-> p, isTemp |-> TRUE],
              disk |-> writeFile(d, p, args.file_content)]
    ELSE IF ~existsSync(d, args.file_path)
         THEN [err |-> "file_not_found", file |-> NoResolved, disk |-> d]
    ELSE IF toLowerCase(extname(args.file_path)) \notin DOMAIN SUPPORTED_FORMATS
         THEN [err |-> "unsupported_format", file |-> NoResolved, disk |-> d]
    ELSE [err |-> "", file |-> [filePath |-> args.file_path, isTemp |-> FALSE], disk |-> d]

\* utils.ts cleanupResolvedFile (not in the sources at hand; sections 3, 4.7, 7).
cleanupResolvedFile(d, resolvedFile) ==
    IF resolvedFile.isTemp /\ existsSync(d, resolvedFile.filePath)
    THEN unlinkSync(d, resolvedFile.filePath)
    ELSE d

\* index.ts 332-386: the switch over the tool name.
Dispatch(name, model) ==
    CASE name = "openrouter_transcribe" -> [adapter |-> "openrouter", model |-> model]
      [] name = "openrouter_gemini" -> [adapter |-> "openrouter", model |-> "gemini-flash"]
      [] name = "openrouter_voxtral" -> [adapter |-> "openrouter", model |-> "voxtral-mini"]
      [] name = "openrouter_gpt4o" -> [adapter |-> "openrouter", model |-> "gpt-4o-audio"]
      [] name = "voxtral_transcribe" -> [adapter |-> "voxtral", model |-> model]
      [] name = "gemini_transcribe" -> [adapter |-> "gemini", model |-> ""]
      [] name = "gemini_transcribe_raw" -> [adapter |-> "gemini", model |-> ""]
      [] name = "openai_transcribe" -> [adapter |-> "openai", model |-> "gpt-4o-transcribe"]
      [] name = "openai_transcribe_economy" -> [adapter |-> "openai", model |-> "gpt-4o-mini-transcribe"]
      [] OTHER -> [adapter |-> "unknown", model |-> ""]

(***************************************************************************)
(* utils.ts 58-66: slugify.                                                *)
(***************************************************************************)
UpperCase ==
    <<"A", "B", "C", "D", "E", "F", "G", "H", "I", "J", "K", "L", "M", "N", "O", "P", "Q",
      "R", "S", "T", "U", "V", "W", "X", "Y", "Z">>
LowerCase ==
    <<"a", "b", "c", "d", "e", "f", "g", "h", "i", "j", "k", "l", "m", "n", "o", "p", "q",
      "r", "s", "t", "u", "v", "w", "x", "y", "z">>
Digits == {"0", "1", "2", "3", "4", "5", "6", "7", "8", "9"}
Range(f) == {f[i] : i \in DOMAIN f}

\* toLowerCase of one character
lowerChar(c) ==
    IF c \in Range(UpperCase)
    THEN LowerCase[CHOOSE i \in DOMAIN UpperCase : UpperCase[i] = c]
    ELSE c

\* \w of a regular expression without the u flag
WordChars == Range(UpperCase) \cup Range(LowerCase) \cup Digits \cup {"_"}

\* s.replace(/(one of cs)+/g, '-'): every maximal run of characters of cs
\* becomes one hyphen.
replaceRuns(s, cs) ==
    LET marked == [i \in 1..Len(s) |->
                     [c |-> IF s[i] \in cs THEN "-" ELSE s[i],
                      keep |-> s[i] \notin cs \/ i = Len(s) \/ s[i + 1] \notin cs]]
        kept == SelectSeq(marked, LAMBDA x : x.keep)
    IN  [i \in 1..Len(kept) |-> kept[i].c]

SlugLimit == 80

\* A slug that keeps only lower-case letters, digits and hyphens.
slugifyStrict(text) ==
    LET lower == [i \in 1..Len(text) |-> lowerChar(text[i])]
        kept == SelectSeq(lower, LAMBDA c : c \in (WordChars \ {"_"}) \cup WhiteSpace \cup {"-"})
    IN  substring(trim(replaceRuns(replaceRuns(kept, WhiteSpace), {"-"})), 0, SlugLimit)

slugify(text) ==
    LET lower == [i \in 1..Len(text) |-> lowerChar(text[i])]
        kept == SelectSeq(lower, LAMBDA c : c \in WordChars \cup WhiteSpace \cup {"-"})
        dashed == replaceRuns(kept, WhiteSpace)
        single == replaceRuns(dashed, {"-"})
    IN  substring(trim(single), 0, SlugLimit)

\* A finally block that forgets the resolver's temporary file.
HandlerFinallySkipsCleanup(d, resolvedFile) == d

\* index.ts 424-429: the finally block.
HandlerFinally(d, resolvedFile) ==
    IF resolvedFile # NoResolved THEN cleanupResolvedFile(d, resolvedFile) ELSE d

\* utils.ts 137-165 saveTranscriptToFile: the document written, `file` being
\* its name in the directory.
TranscriptSlug == <<"t", "r", "a", "n", "s", "c", "r", "i", "p", "t">>
MarkdownExt == <<".", "m", "d">>
saveTranscriptToFile(outputDir, title) ==
    [dir |-> outputDir, title |-> title,
     file |-> slugify(IF title # <<>> THEN title ELSE TranscriptSlug) \o MarkdownExt]

\* The handler returns from inside the try block (or its catch) with `ret`:
\* the finally block runs, then the call is done.
Finish(r, q, ret, d, written) ==
    LET d2 == HandlerFinally(d, q.resolvedFile)
    IN  /\ req' = [req EXCEPT ![r] =
                     [q EXCEPT !.pc = "done", !.ret = ret, !.doc = written,
                               !.fsOps = @ \cup (IF d2 # d THEN {"unlink_temp"} ELSE {})
                                           \cup (IF written # NoDoc THEN {"write_doc"} ELSE {})]]
        /\ disk' = d2

\* A handler that saves the document whether or not a directory was given.
CompleteAlwaysSaves(r, q, outcome, d, saveOk) ==
    IF outcome.threw
    THEN Finish(r, q, ErrorResult("Transcription failed: ", outcome.err), d, NoDoc)
    ELSE IF saveOk
         THEN LET doc == saveTranscriptToFile(q.args.output_dir, outcome.response.title)
              IN  Finish(r, q, SuccessResult(outcome.response, doc), d, doc)
         ELSE Finish(r, q, ErrorResult("Transcription failed: ", "save_failed"), d, NoDoc)

\* index.ts 388-423: what follows the adapter's await.  `outcome` is what the
\* adapter's promise settled to; saveOk tells whether the write of the
\* document succeeds.
Complete(r, q, outcome, d, saveOk) ==
    IF outcome.threw
    THEN Finish(r, q, ErrorResult("Transcription failed: ", outcome.err), d, NoDoc)
    ELSE IF q.args.output_dir # ""
         THEN IF saveOk
              THEN LET doc == saveTranscriptToFile(q.args.output_dir, outcome.response.title)
                   IN  Finish(r, q, SuccessResult(outcome.response, doc), d, doc)
              ELSE Finish(r, q, ErrorResult("Transcription failed: ", "save_failed"), d, NoDoc)
    ELSE Finish(r, q, SuccessResult(outcome.response, NoDoc), d, NoDoc)

(***************************************************************************)
(* gemini.ts: parseJsonResponse.                                           *)
(***************************************************************************)
startsWith(s, prefix) == Len(s) >= Len(prefix) /\ SubSeq(s, 1, Len(prefix)) = prefix
endsWith(s, suffix) ==
    Len(s) >= Len(suffix) /\ SubSeq(s, Len(s) - Len(suffix) + 1, Len(s)) = suffix
\* s.slice(n) and s.slice(0, -n)
sliceFrom(s, n) == SubSeq(s, n + 1, Len(s))
sliceOffEnd(s, n) == SubSeq(s, 1, Len(s) - n)

\* The character U+0060, which a TLA+ string cannot hold.
BackQuote == "<backquote>"
Fence == <<BackQuote, BackQuote, BackQuote>>
FenceJson == Fence \o <<"j", "s", "o", "n">>

VoiceNote == <<"V", "o", "i", "c", "e", " ", "N", "o", "t", "e">>
TranscribedVoiceNote ==
    <<"T", "r", "a", "n", "s", "c", "r", "i", "b", "e", "d", " ", "v", "o",
      "i", "c", "e", " ", "n", "o", "t", "e", ".">>

\* The reply texts of the model.  ObjectJson is
\* {"title":"T","description":"D.","transcript":"hi"}
ObjectJson ==
    <<"{", "\"", "t", "i", "t", "l", "e", "\"", ":", "\"", "T", "\"", ",",
      "\"", "d", "e", "s", "c", "r", "i", "p", "t", "i", "o", "n", "\"", ":",
      "\"", "D", ".", "\"", ",", "\"", "t", "r", "a", "n", "s", "c", "r",
      "i", "p", "t", "\"", ":", "\"", "h", "i", "\"", "}">>
NullJson == <<"n", "u", "l", "l">>
FencedObjectJson == FenceJson \o <<"\n">> \o ObjectJson \o <<"\n">> \o Fence
\* {"title":"T"}, bare and in a fence, and prose in a fence
TitleOnlyJson == <<"{", "\"", "t", "i", "t", "l", "e", "\"", ":", "\"", "T", "\"", "}">>
FencedTitleOnlyJson == Fence \o <<"\n">> \o TitleOnlyJson \o <<"\n">> \o Fence
FencedProse == Fence \o <<"\n">> \o HiThere \o <<"\n">> \o Fence
\* {} and 5: JSON values without the three members
EmptyObjectJson == <<"{", "}">>
NumberJson == <<"5">>
GeminiTexts ==
    {<<>>, HiThere, FencedObjectJson, ObjectJson, NullJson, TitleOnlyJson,
     FencedTitleOnlyJson, FencedProse, EmptyObjectJson, NumberJson}

\* A parsed JSON value: an object with its title / description / transcript
\* members (<<>> when absent), or null.
JsonObject(title, description, transcript) ==
    [kind |-> "object", title |-> title, description |-> description,
     transcript |-> transcript]
JsonNull == [kind |-> "null", title |-> <<>>, description |-> <<>>, transcript |-> <<>>]
\* A number: reading a member of it gives undefined.
JsonNumber == [kind |-> "number", title |-> <<>>, description |-> <<>>, transcript |-> <<>>]
JsonSyntaxError == [kind |-> "error", title |-> <<>>, description |-> <<>>, transcript |-> <<>>]

\* JSON.parse on the texts of the model; every other text is a syntax error.
JSONparse(text) ==
    CASE text = ObjectJson -> JsonObject(<<"T">>, <<"D", ".">>, <<"h", "i">>)
      [] text = TitleOnlyJson -> JsonObject(<<"T">>, <<>>, <<>>)
      [] text = NullJson -> JsonNull
      [] text = EmptyObjectJson -> JsonObject(<<>>, <<>>, <<>>)
      [] text = NumberJson -> JsonNumber
      [] OTHER -> JsonSyntaxError

parseJsonResponse(text) ==
    LET t0 == trim(text)
        t1 == IF startsWith(t0, FenceJson) THEN sliceFrom(t0, 7)
              ELSE IF startsWith(t0, Fence) THEN sliceFrom(t0, 3)
              ELSE t0
        t2 == IF endsWith(t1, Fence) THEN sliceOffEnd(t1, 3) ELSE t1
        cleaned == trim(t2)
        parsed == JSONparse(cleaned)
    IN  IF parsed.kind = "error"
        THEN JsonObject(VoiceNote, TranscribedVoiceNote, text)
        ELSE parsed

\* x || y on strings
OrElse(x, y) == IF x # <<>> THEN x ELSE y

(***************************************************************************)
(* The adapters, up to their first await.  Each yields either the settled  *)
(* outcome (an error thrown before any await) or the request record at the *)
(* await.  hasKey: the backend's credential is set in the environment.     *)
(***************************************************************************)
Settled(q, outcome) == [await |-> FALSE, q |-> q, outcome |-> outcome]
Awaiting(q) == [await |-> TRUE, q |-> q, outcome |-> Threw("")]

\* openai.ts 48-77
transcribeWithOpenAI(q, d, filePath, model, hasKey, envModel) ==
    LET v == validateAudioFile(d, filePath, OPENAI_MAX_FILE_SIZE_BYTES)
    IN  IF v # "ok" THEN Settled(q, Threw(v))
        ELSE IF getFileSize(d, filePath) > OPENAI_MAX_FILE_SIZE_BYTES
             THEN Settled(q, Threw("file_too_large"))
        ELSE IF ~hasKey THEN Settled(q, Threw("missing_api_key"))
        ELSE Awaiting([q EXCEPT
                 !.pc = "await_openai",
                 !.model = IF model # "" THEN model ELSE getDefaultModelOpenAI(envModel),
                 !.remote = @ \cup {"openai.transcriptions.create"}])

\* openrouter.ts (openai.ts 175-224)
transcribeWithOpenRouter(q, d, filePath, model, hasKey, envModel) ==
    LET v == validateAudioFile(d, filePath, 0)
    IN  IF v # "ok" THEN Settled(q, Threw(v))
        ELSE IF ~hasKey THEN Settled(q, Threw("missing_api_key"))
        ELSE Awaiting([q EXCEPT
                 !.pc = "await_openrouter",
                 !.model = resolveModel(model, envModel),
                 !.remote = @ \cup {"openrouter.chat.completions.create"}])

\* voxtral.ts (unnamed/part_003 125-141)
transcribeWithVoxtral(q, d, filePath, model, hasKey, envModel) ==
    LET v == validateAudioFile(d, filePath, 0)
    IN  IF v # "ok" THEN Settled(q, Threw(v))
        ELSE IF ~hasKey THEN Settled(q, Threw("missing_api_key"))
        ELSE Awaiting([q EXCEPT
                 !.pc = "await_voxtral",
                 !.model = IF model # "" THEN model ELSE getDefaultModelVoxtral(envModel),
                 !.remote = @ \cup {"mistral.chat.completions"}])

\* utils.ts 94-96: the transcoder's output path, named after the clock.
downsampleOutputPath(t) == [kind |-> "asr", id |-> t, ext |-> ".mp3"]

\* utils.ts 98-105: the arguments of the ffmpeg process: channels, sample
\* rate (Hz), bit rate.
downsampleSettings == [ac |-> 1, ar |-> 16000, ba |-> "32k"]

\* A preparation that passes a file through only below the threshold.
prepareAudioFileBelow(d, filePath, downsampleThreshold) ==
    IF d[filePath] < downsampleThreshold
    THEN [transcode |-> FALSE,
          info |-> [processedPath |-> filePath, mimeType |-> getMimeType(filePath),
                    needsCleanup |-> FALSE]]
    ELSE [transcode |-> TRUE, info |-> NoAudioInfo]

\* utils.ts 68-80: prepareAudioFile up to its await; pass-through or transcode.
prepareAudioFile(d, filePath, downsampleThreshold) ==
    IF d[filePath] <= downsampleThreshold
    THEN [transcode |-> FALSE,
          info |-> [processedPath |-> filePath, mimeType |-> getMimeType(filePath),
                    needsCleanup |-> FALSE]]
    ELSE [transcode |-> TRUE, info |-> NoAudioInfo]

\* A cleanup that ignores the needsCleanup flag.
cleanupTempFileUnflagged(d, fileInfo) ==
    IF existsSync(d, fileInfo.processedPath)
    THEN unlinkSync(d, fileInfo.processedPath)
    ELSE d

\* utils.ts 127-135
cleanupTempFile(d, fileInfo) ==
    IF fileInfo.needsCleanup /\ existsSync(d, fileInfo.processedPath)
    THEN unlinkSync(d, fileInfo.processedPath)
    ELSE d

\* gemini.ts (README.md 430-452): up to the upload, or to the transcoder's spawn.
transcribeWithGemini(q, d, filePath, hasKey, t) ==
    LET v == validateAudioFile(d, filePath, GEMINI_MAX_FILE_SIZE_BYTES)
    IN  IF v # "ok" THEN Settled(q, Threw(v))
        ELSE IF ~hasKey THEN Settled(q, Threw("missing_api_key"))
        ELSE LET prep == prepareAudioFile(d, filePath, GEMINI_DOWNSAMPLE_THRESHOLD_BYTES)
             IN  IF prep.transcode
                 THEN Awaiting([q EXCEPT !.pc = "gemini_ffmpeg", !.model = MODEL_NAME,
                                         !.outputPath = downsampleOutputPath(t),
                                         !.transcoder = @ + 1,
                                         !.ffmpegArgs = downsampleSettings])
                 ELSE Awaiting([q EXCEPT !.pc = "gemini_upload", !.model = MODEL_NAME,
                                         !.audioInfo = prep.info,
                                         !.remote = @ \cup {"gemini.files.upload"}])

\* The values of the backend's default-model variable that the call can read:
\* only the OpenRouter and Voxtral adapters without a model read it.
EnvModelsFor(disp) ==
    IF disp.model = "" /\ disp.adapter \in {"openrouter", "voxtral"} THEN EnvModels ELSE {""}

\* The call the switch makes for a dispatched tool.
AdapterStart(disp, q, d, filePath, hasKey, envModel, t) ==
    CASE disp.adapter = "openai" -> transcribeWithOpenAI(q, d, filePath, disp.model, hasKey, envModel)
      [] disp.adapter = "openrouter" -> transcribeWithOpenRouter(q, d, filePath, disp.model, hasKey, envModel)
      [] disp.adapter = "voxtral" -> transcribeWithVoxtral(q, d, filePath, disp.model, hasKey, envModel)
      [] disp.adapter = "gemini" -> transcribeWithGemini(q, d, filePath, hasKey, t)

(***************************************************************************)
(* Actions of the handler.                                                 *)
(***************************************************************************)
InFlight == {r \in Reqs : req[r].pc # "idle"}

\* index.ts 263-386: a tool call arrives and the handler runs to its first
\* await, or to its return when nothing is awaited.  At most k calls at once.
HandleCall(r, name, args) ==
    /\ args.model # "" => name \in TakesModel
    /\ LET q0 == [IdleReq EXCEPT !.name = name, !.args = args]
           v == ValidateArgs(args)
       IN  IF v # "ok"
           THEN \* returned before the try block: no finally
                /\ req' = [req EXCEPT ![r] = [q0 EXCEPT !.pc = "done",
                                                       !.ret = ErrorResult("", v)]]
                /\ UNCHANGED disk
           ELSE /\ FreshIds(disk) # {}
                /\ \E useContent \in SourceChoices(args) :
                    LET rf == resolveFileInput(disk, args, useContent, FreshId(disk))
                        q1 == [q0 EXCEPT !.resolved = TRUE, !.resolvedFile = rf.file,
                                         !.fsOps = IF rf.disk # disk THEN {"write_temp"} ELSE {}]
                        disp == Dispatch(name, args.model)
                    IN  IF rf.err # "" THEN Complete(r, q1, Threw(rf.err), rf.disk, FALSE)
                        ELSE IF disp.adapter = "unknown"
                             THEN Finish(r, q1, ErrorResult("", "unknown_tool"), rf.disk, NoDoc)
                        ELSE \E hasKey \in BOOLEAN, envModel \in EnvModelsFor(disp) :
                               LET st == AdapterStart(disp, [q1 EXCEPT !.envModel = envModel],
                                                      rf.disk, rf.file.filePath,
                                                      hasKey, envModel, now)
                               IN  IF st.await
                                   THEN /\ req' = [req EXCEPT ![r] = st.q]
                                        /\ disk' = rf.disk
                                   ELSE Complete(r, st.q, st.outcome, rf.disk, FALSE)
    /\ UNCHANGED <<now, aai, calc, sse>>

\* A call arrives on a free slot, with a tool name of `names` and arguments of
\* `argSpace`, while fewer than k calls are in flight.
Call(r, names, argSpace, k) ==
    /\ req[r].pc = "idle"
    /\ \A x \in Reqs : x < r => req[x].pc # "idle"    \* the slots are interchangeable
    /\ Cardinality(InFlight) < k
    /\ \E name \in names, args \in argSpace : HandleCall(r, name, args)

\* openai.ts 77-92: the transcription request settles.
OpenAIReply(r) ==
    /\ req[r].pc = "await_openai"
    /\ \E failed \in BOOLEAN, transcript \in Transcripts, saveOk \in BOOLEAN :
        Complete(r, req[r],
                 IF failed THEN Threw("remote_error")
                 ELSE Returned(Response(generateTitle(transcript),
                                        generateDescription(transcript), transcript,
                                        "openai", req[r].model, now)),
                 disk, saveOk)
    /\ UNCHANGED <<now, aai, calc, sse>>

\* openrouter.ts (openai.ts 224-248): content is the reply's
\* choices[0]?.message?.content, <<>> when there is none.
OpenRouterReply(r) ==
    /\ req[r].pc = "await_openrouter"
    /\ \E failed \in BOOLEAN, content \in Transcripts, saveOk \in BOOLEAN :
        LET transcript == OrElse(content, <<>>)
        IN  Complete(r, req[r],
                 IF failed THEN Threw("remote_error")
                 ELSE Returned(Response(generateTitle(transcript),
                                        generateDescription(transcript), transcript,
                                        "openrouter", req[r].model, now)),
                 disk, saveOk)
    /\ UNCHANGED <<now, aai, calc, sse>>

\* voxtral.ts (unnamed/part_003 95-160): callMistralAPI settles.
MistralFailures == {"mistral_api_error", "mistral_parse_error", "mistral_request_failed"}
VoxtralReply(r) ==
    /\ req[r].pc = "await_voxtral"
    /\ \E reply \in {"ok"} \cup MistralFailures, content \in Transcripts,
          saveOk \in BOOLEAN :
        LET transcript == OrElse(content, <<>>)
        IN  Complete(r, req[r],
                 IF reply # "ok" THEN Threw(reply)
                 ELSE Returned(Response(generateTitle(transcript),
                                        generateDescription(transcript), transcript,
                                        "voxtral", req[r].model, now)),
                 disk, saveOk)
    /\ UNCHANGED <<now, aai, calc, sse>>

\* The client has taken the result; the slot is free again.
Release(r) ==
    /\ req[r].pc = "done"
    /\ req' = [req EXCEPT ![r] = IdleReq]
    /\ UNCHANGED <<disk, now, aai, calc, sse>>

\* A millisecond passes.
Tick ==
    /\ now < MaxClock
    /\ now' = now + 1
    /\ UNCHANGED <<req, disk, aai, calc, sse>>

(***************************************************************************)
(* gemini.ts (README.md 370-499): transcribeWithGemini after its first     *)
(* await.                                                                  *)
(***************************************************************************)
\* README.md 487-498: the finally block of transcribeWithGemini, entered with
\* the outcome of the try block.  With an uploaded artifact its deletion is
\* awaited before the outcome reaches the handler.
\* unlinkOk tells whether the unlink of cleanupTempFile succeeds; its failure
\* is caught inside cleanupTempFile (utils.ts 129-133) and the file stays.
GeminiFinally(r, q, outcome, d, saveOk) ==
    \E unlinkOk \in BOOLEAN :
        LET d0 == IF q.audioInfo # NoAudioInfo THEN cleanupTempFile(d, q.audioInfo) ELSE d
            d1 == IF unlinkOk THEN d0 ELSE d
            q1 == [q EXCEPT !.fsOps = @ \cup (IF d1 # d THEN {"unlink_asr"} ELSE {}),
                            !.unlinkFailed = ~unlinkOk]
        IN  /\ d0 = d => unlinkOk
            /\ IF q.uploadedFileName
               THEN /\ req' = [req EXCEPT ![r] =
                                 [q1 EXCEPT !.pc = "gemini_delete", !.pending = outcome,
                                            !.deletes = @ + 1,
                                            !.remote = @ \cup {"gemini.files.delete"}]]
                    /\ disk' = d1
               ELSE Complete(r, [q1 EXCEPT !.pending = outcome], outcome, d1, saveOk)

\* The size of a transcoded file (the transcoder is a black box).
TranscodedSizes == {1024}

\* The transcoder process creates, or overwrites (-y), its output file.
TranscoderWrite(r) ==
    /\ req[r].pc = "gemini_ffmpeg"
    /\ \E size \in TranscodedSizes :
        disk' = writeFile(disk, req[r].outputPath, size)
    /\ req' = [req EXCEPT ![r].wrote = TRUE, ![r].fsOps = @ \cup {"write_asr"}]
    /\ UNCHANGED <<now, aai, calc, sse>>

\* utils.ts 82-91, 113-123, then README.md 443-452: the transcoder ends (exit
\* code 0, exit code 1, or it could not be spawned) and the continuations run.
TranscoderExit(r) ==
    /\ req[r].pc = "gemini_ffmpeg"
    /\ \E how \in {"exit0", "exit1", "spawn_error"}, saveOk \in BOOLEAN :
        /\ how = "exit0" => req[r].wrote
        /\ how = "spawn_error" => ~req[r].wrote
        /\ IF how # "exit0"
           THEN GeminiFinally(r, req[r], Threw("ffmpeg_failed"), disk, saveOk)
           ELSE IF ~existsSync(disk, req[r].outputPath)
                THEN \* fs.statSync(processedPath) throws
                     GeminiFinally(r, req[r], Threw("stat_failed"), disk, saveOk)
           ELSE /\ req' = [req EXCEPT ![r] =
                             [@ EXCEPT !.pc = "gemini_upload",
                                       !.audioInfo = [processedPath |-> req[r].outputPath,
                                                      mimeType |-> "audio/mp3",
                                                      needsCleanup |-> TRUE],
                                       !.remote = @ \cup {"gemini.files.upload"}]]
                /\ UNCHANGED disk
    /\ UNCHANGED <<now, aai, calc, sse>>

\* README.md 446-456: ai.files.upload settles; waitForFileProcessing starts.
GeminiUploadReply(r) ==
    /\ req[r].pc = "gemini_upload"
    /\ \E failed \in BOOLEAN, saveOk \in BOOLEAN :
        IF failed
        THEN GeminiFinally(r, req[r], Threw("upload_failed"), disk, saveOk)
        ELSE /\ req' = [req EXCEPT ![r] =
                          [@ EXCEPT !.pc = "gemini_wait", !.uploadedFileName = TRUE,
                                    !.remote = @ \cup {"gemini.files.get"}]]
             /\ UNCHANGED disk
    /\ UNCHANGED <<now, aai, calc, sse>>

\* The states an uploaded artifact is reported in.
FileStates == {"PROCESSING", "ACTIVE", "FAILED"}

\* A wait that takes every state but PROCESSING for success.
GeminiWaitReplyIgnoresFailed(r) ==
    /\ req[r].pc = "gemini_wait"
    /\ \E failed \in BOOLEAN, state \in FileStates, saveOk \in BOOLEAN :
        IF failed THEN GeminiFinally(r, req[r], Threw("get_failed"), disk, saveOk)
        ELSE IF state = "PROCESSING"
             THEN /\ req' = [req EXCEPT ![r] = [@ EXCEPT !.pc = "gemini_sleep",
                                                         !.fileState = state]]
                  /\ UNCHANGED disk
        ELSE /\ req' = [req EXCEPT ![r] = [@ EXCEPT !.pc = "gemini_get", !.fileState = state]]
             /\ UNCHANGED disk
    /\ UNCHANGED <<now, aai, calc, sse>>

\* README.md 393-404, 458: a files.get of waitForFileProcessing settles.
GeminiWaitReply(r) ==
    /\ req[r].pc = "gemini_wait"
    /\ \E failed \in BOOLEAN, state \in FileStates, saveOk \in BOOLEAN :
        IF failed THEN GeminiFinally(r, req[r], Threw("get_failed"), disk, saveOk)
        ELSE IF state = "PROCESSING"
             THEN /\ req' = [req EXCEPT ![r] = [@ EXCEPT !.pc = "gemini_sleep",
                                                         !.fileState = state]]
                  /\ UNCHANGED disk
        ELSE IF state = "FAILED"
             THEN GeminiFinally(r, [req[r] EXCEPT !.fileState = state],
                                Threw("file_processing_failed"), disk, saveOk)
        ELSE /\ req' = [req EXCEPT ![r] = [@ EXCEPT !.pc = "gemini_get", !.fileState = state]]
             /\ UNCHANGED disk
    /\ UNCHANGED <<now, aai, calc, sse>>

\* README.md 396-399: the 1 s timer of waitForFileProcessing fires and the
\* artifact is fetched again; nothing counts the fetches.
GeminiWaitTimer(r) ==
    /\ req[r].pc = "gemini_sleep"
    /\ req' = [req EXCEPT ![r].pc = "gemini_wait"]
    /\ UNCHANGED <<disk, now, aai, calc, sse>>

\* README.md 458-468: the second files.get settles; generateContent is called.
GeminiGetReply(r) ==
    /\ req[r].pc = "gemini_get"
    /\ \E failed \in BOOLEAN, saveOk \in BOOLEAN :
        IF failed THEN GeminiFinally(r, req[r], Threw("get_failed"), disk, saveOk)
        ELSE /\ req' = [req EXCEPT ![r] =
                          [@ EXCEPT !.pc = "gemini_generate",
                                    !.remote = @ \cup {"gemini.models.generateContent"}]]
             /\ UNCHANGED disk
    /\ UNCHANGED <<now, aai, calc, sse>>

\* README.md 470-486: what the try block makes of the reply text.
GeminiResult(text, model, t) ==
    IF text = <<>> THEN Threw("no_text")
    ELSE LET parsed == parseJsonResponse(text)
         IN  IF parsed.kind = "null"
             THEN Threw("type_error")     \* parsed.title of null
             ELSE Returned(Response(OrElse(parsed.title, VoiceNote),
                                    OrElse(parsed.description, TranscribedVoiceNote),
                                    OrElse(parsed.transcript, text),
                                    "gemini", model, t))

\* README.md 462-486: generateContent settles, with a reply text of `texts`.
GeminiGenerateReplyOf(r, texts) ==
    /\ req[r].pc = "gemini_generate"
    /\ \E failed \in BOOLEAN, text \in texts, saveOk \in BOOLEAN :
        GeminiFinally(r, [req[r] EXCEPT !.replyText = IF failed THEN <<>> ELSE text],
                      IF failed THEN Threw("generate_failed")
                      ELSE GeminiResult(text, req[r].model, now),
                      disk, saveOk)
    /\ UNCHANGED <<now, aai, calc, sse>>

GeminiGenerateReply(r) == GeminiGenerateReplyOf(r, GeminiTexts)

\* A finally block without the catch: a failed deletion is thrown.
GeminiDeleteReplySurfaces(r) ==
    /\ req[r].pc = "gemini_delete"
    /\ \E failed \in BOOLEAN, saveOk \in BOOLEAN :
        Complete(r, [req[r] EXCEPT !.deleteFailed = failed],
                 IF failed THEN Threw("delete_failed") ELSE req[r].pending, disk, saveOk)
    /\ UNCHANGED <<now, aai, calc, sse>>

\* README.md 491-497: ai.files.delete settles; a failure is swallowed.
GeminiDeleteReply(r) ==
    /\ req[r].pc = "gemini_delete"
    /\ \E failed \in BOOLEAN, saveOk \in BOOLEAN :
        Complete(r, [req[r] EXCEPT !.deleteFailed = failed], req[r].pending, disk, saveOk)
    /\ UNCHANGED <<now, aai, calc, sse>>

(***************************************************************************)
(* assemblyai.ts (README.md 135-368): transcribeWithAssemblyAI, called     *)
(* directly (the handler has no case for it).                              *)
(***************************************************************************)
maxAttempts == 120

IdleAai ==
    [pc |-> "idle", filePath |-> NoPath,
     remote |-> <<>>,            \* the remote calls issued, in order
     uploadUrl |-> "", transcriptId |-> "",
     attempts |-> 0,             \* pollTranscript's counter
     fetches |-> 0,              \* status fetches issued
     nonTerminal |-> 0,          \* status replies that were queued or processing
     last |-> [status |-> "", text |-> <<>>, error |-> ""],   \* the last status reply
     failedAt |-> 0,             \* remote calls issued when one of them failed
     outcome |-> Threw("")]

\* An off-by-one loop condition: one attempt too many.
pollContinuesInclusive(attempts) == attempts <= maxAttempts

\* README.md 262: the loop condition of pollTranscript.
pollContinues(attempts) == attempts < maxAttempts

\* A status check that compares with a misspelt 'complete': a completed job
\* is polled again.
pollDecisionMisspelt(status, text) ==
    IF status = "error" THEN "throw_failed" ELSE "wait"

\* README.md 265-277: what pollTranscript does with a status reply.
pollDecision(status, text) ==
    IF status = "completed"
    THEN IF text = <<>> THEN "throw_no_text" ELSE "return"
    ELSE IF status = "error" THEN "throw_failed"
    ELSE "wait"

\* A thrown error that drops the backend's message.
pollFailureGeneric(error) == "Transcription failed: Unknown error"

\* README.md 272-274: the message of the error thrown on a status of error.
pollFailure(error) ==
    "Transcription failed: " \o (IF error # "" THEN error ELSE "Unknown error")

\* README.md 262-263, 281: the head of the loop: fetch the status again, or
\* give up.
pollLoop(a) ==
    IF pollContinues(a.attempts)
    THEN [a EXCEPT !.pc = "aai_status", !.fetches = @ + 1,
                   !.remote = Append(@, "status")]
    ELSE [a EXCEPT !.pc = "done", !.outcome = Threw("timeout")]

\* Failures of one https request: non-200 status, unparsable body, network.
HttpFailures == {"http_status", "parse_error", "request_failed"}

\* A failed status fetch that is swallowed and polled again.
onHttpFailureRetriesStatus(a, call, reply) ==
    IF call = "status_" THEN [a EXCEPT !.pc = "aai_sleep"]
    ELSE [a EXCEPT !.pc = "done", !.outcome = Threw(call \o reply)]

\* README.md 186-202, 235-251, 303-319: the promise of a failed request is
\* rejected, and no caller catches the rejection: the adapter throws.
onHttpFailure(a, call, reply) ==
    [a EXCEPT !.pc = "done", !.outcome = Threw(call \o reply)]

\* README.md 343-349: validation, credential, and the upload request.
transcribeWithAssemblyAI(filePath) ==
    /\ aai.pc = "idle"
    /\ \E hasKey \in BOOLEAN :
        LET v == validateAudioFile(disk, filePath, 0)
            a == [IdleAai EXCEPT !.filePath = filePath]
        IN  aai' = IF v # "ok" THEN [a EXCEPT !.pc = "done", !.outcome = Threw(v)]
                   ELSE IF ~hasKey
                        THEN [a EXCEPT !.pc = "done", !.outcome = Threw("missing_api_key")]
                   ELSE [a EXCEPT !.pc = "aai_upload", !.remote = Append(@, "upload")]
    /\ UNCHANGED <<req, disk, now, calc, sse>>

\* README.md 162-207, 352: uploadFile settles; createTranscript is called with
\* the reply's upload_url ("" when the reply has none).
uploadFile ==
    /\ aai.pc = "aai_upload"
    /\ \E reply \in {"ok"} \cup HttpFailures, url \in {"", "https://cdn/upload/1"} :
        aai' = IF reply # "ok"
               THEN [onHttpFailure(aai, "upload_", reply) EXCEPT !.failedAt = Len(aai.remote)]
               ELSE [aai EXCEPT !.pc = "aai_create", !.uploadUrl = url,
                                !.remote = Append(@, "create")]
    /\ UNCHANGED <<req, disk, now, calc, sse>>

\* README.md 209-256, 355: createTranscript settles; pollTranscript starts.
createTranscript ==
    /\ aai.pc = "aai_create"
    /\ \E reply \in {"ok"} \cup HttpFailures, id \in {"", "job-1"} :
        aai' = IF reply # "ok"
               THEN [onHttpFailure(aai, "create_", reply) EXCEPT !.failedAt = Len(aai.remote)]
               ELSE pollLoop([aai EXCEPT !.transcriptId = id, !.attempts = 0])
    /\ UNCHANGED <<req, disk, now, calc, sse>>

\* README.md 263-277, 284-324, 357-367: getTranscriptStatus settles.
JobStatuses == {"queued", "processing", "completed", "error"}
ErrorMessages == {"", "bad audio"}
\* The status replies: text comes with completed, error with error.
StatusReplies ==
    { [status |-> st, text |-> <<>>, error |-> ""] : st \in {"queued", "processing"} }
    \cup { [status |-> "completed", text |-> t, error |-> ""] : t \in Transcripts }
    \cup { [status |-> "error", text |-> <<>>, error |-> e] : e \in ErrorMessages }
getTranscriptStatus ==
    /\ aai.pc = "aai_status"
    /\ \E reply \in {"ok"} \cup HttpFailures, result \in StatusReplies :
        IF reply # "ok"
        THEN aai' = [onHttpFailure(aai, "status_", reply) EXCEPT !.failedAt = Len(aai.remote)]
        ELSE LET status == result.status
                 text == result.text
                 a == [aai EXCEPT !.last = result,
                                  !.nonTerminal =
                                      IF status \in {"queued", "processing"} THEN @ + 1 ELSE @]
                 what == pollDecision(status, text)
             IN  aai' =
                   CASE what = "return" ->
                          [a EXCEPT !.pc = "done",
                                    !.outcome = Returned(Response(generateTitle(text),
                                                    generateDescription(text), text,
                                                    "assemblyai", "assemblyai-default", now))]
                     [] what = "throw_no_text" ->
                          [a EXCEPT !.pc = "done", !.outcome = Threw("no_text")]
                     [] what = "throw_failed" ->
                          [a EXCEPT !.pc = "done", !.outcome = Threw(pollFailure(result.error))]
                     [] OTHER -> [a EXCEPT !.pc = "aai_sleep"]
    /\ UNCHANGED <<req, disk, now, calc, sse>>

\* README.md 276-279: the 5 s timer fires; attempts++ and back to the loop head.
pollTranscript ==
    /\ aai.pc = "aai_sleep"
    /\ aai' = pollLoop([aai EXCEPT !.attempts = @ + 1])
    /\ UNCHANGED <<req, disk, now, calc, sse>>

\* The caller has taken the outcome.
AaiRelease ==
    /\ aai.pc = "done"
    /\ aai' = IdleAai
    /\ UNCHANGED <<req, disk, now, calc, sse>>

(***************************************************************************)
(* index.ts 444-484: startSSE.  Session ids are the values of              *)
(* crypto.randomUUID(): the n-th call returns n, so no value comes twice.  *)
(***************************************************************************)
MaxSessions == 4

NoPost == [sessionId |-> -1, keys |-> {}, status |-> 0, transport |-> 0]

IdleSse ==
    [transports |-> <<>>,     \* the Map: session id -> transport
     open |-> {},             \* the open connections: session, transport, server
     closed |-> {},           \* the session ids of the connections that closed
     uuids |-> 0,             \* calls of crypto.randomUUID()
     servers |-> 0,           \* calls of createServer()
     last |-> NoPost]         \* the last POST /message: the keys of the map when
                              \* it arrived, the status, the transport it went to

\* Map.set and Map.delete
mapSet(m, k, v) == [x \in (DOMAIN m) \cup {k} |-> IF x = k THEN v ELSE m[x]]
mapDelete(m, k) == [x \in (DOMAIN m) \ {k} |-> m[x]]

\* index.ts 455-470: GET /sse.
SseConnect ==
    /\ sse.uuids < MaxSessions
    /\ LET sessionId == sse.uuids + 1
           transport == sessionId          \* new SSEServerTransport
           server == sse.servers + 1       \* createServer()
       IN  sse' = [sse EXCEPT !.transports = mapSet(@, sessionId, transport),
                              !.open = @ \cup {[session |-> sessionId,
                                                transport |-> transport,
                                                server |-> server]},
                              !.uuids = sessionId, !.servers = server]
    /\ UNCHANGED <<req, disk, now, aai, calc>>

\* A close handler that leaves the entry in the map.
SseCloseKeepsEntry(c) ==
    /\ c \in sse.open
    /\ sse' = [sse EXCEPT !.open = @ \ {c}, !.closed = @ \cup {c.session}]
    /\ UNCHANGED <<req, disk, now, aai, calc>>

\* index.ts 464-467: the response of connection c emits 'close'.
SseClose(c) ==
    /\ c \in sse.open
    /\ sse' = [sse EXCEPT !.transports = mapDelete(@, c.session),
                          !.open = @ \ {c}, !.closed = @ \cup {c.session}]
    /\ UNCHANGED <<req, disk, now, aai, calc>>

\* index.ts 473-483: POST /message?sessionId=...; status 404, or 200 for a
\* message handed to transport.handlePostMessage.
SsePost(sessionId) ==
    /\ sse' = [sse EXCEPT !.last =
                 IF sessionId \notin DOMAIN sse.transports
                 THEN [sessionId |-> sessionId, keys |-> DOMAIN sse.transports,
                       status |-> 404, transport |-> 0]
                 ELSE [sessionId |-> sessionId, keys |-> DOMAIN sse.transports,
                       status |-> 200, transport |-> sse.transports[sessionId]]]
    /\ UNCHANGED <<req, disk, now, aai, calc>>

(***************************************************************************)
(* Specification of the tool-call handler: one call at a time, every tool  *)
(* name and argument combination.                                          *)
(***************************************************************************)
\* No pure function is under test.
NoFile == [ext |-> "", exists |-> FALSE, size |-> 0]
NoCalc == [fn |-> "", file |-> NoFile, text |-> <<>>, out |-> "", result |-> <<>>,
           again |-> <<>>]

Init ==
    /\ req = [r \in Reqs |-> IdleReq]
    /\ disk = InitDisk
    /\ now = 0
    /\ aai = IdleAai
    /\ calc = NoCalc
    /\ sse = IdleSse

Replies(r) ==
    \/ OpenAIReply(r)
    \/ OpenRouterReply(r)
    \/ VoxtralReply(r)
    \/ TranscoderWrite(r)
    \/ TranscoderExit(r)
    \/ GeminiUploadReply(r)
    \/ GeminiWaitReply(r)
    \/ GeminiWaitTimer(r)
    \/ GeminiGetReply(r)
    \/ GeminiGenerateReply(r)
    \/ GeminiDeleteReply(r)

Next ==
    \/ \E r \in Reqs : Call(r, ToolNames, ArgSpace, 1)
    \/ \E r \in Reqs : Replies(r)
    \/ \E r \in Reqs : Release(r)
    \/ Tick

Spec == Init /\ [][Next]_vars

(***************************************************************************)
(* Specification of the AssemblyAI adapter, called on any of the caller's  *)
(* files.                                                                  *)
(***************************************************************************)
AaiCall == \E filePath \in (DOMAIN disk) \cup {MissingPath} : transcribeWithAssemblyAI(filePath)

NextAssembly ==
    \/ AaiCall
    \/ uploadFile
    \/ createTranscript
    \/ getTranscriptStatus
    \/ pollTranscript
    \/ AaiRelease
    \/ Tick

SpecAssembly == Init /\ [][NextAssembly]_vars

(***************************************************************************)
(* Specification of concurrent Gemini calls: up to NumReqs calls in flight *)
(* at once, each with a file above the preprocessing threshold, given by   *)
(* path or inline.                                                         *)
(***************************************************************************)
ConcNames == {"gemini_transcribe"}
ConcArgs ==
    { [NoArgs EXCEPT !.file_path = LocalPath(3, ".wav")],
      [NoArgs EXCEPT !.file_content = GEMINI_DOWNSAMPLE_THRESHOLD_BYTES + 1,
                     !.file_name = FileName("rec", ".mp3")] }

NextConc ==
    \/ \E r \in Reqs : Call(r, ConcNames, ConcArgs, NumReqs)
    \/ \E r \in Reqs : TranscoderWrite(r)
    \/ \E r \in Reqs : TranscoderExit(r)
    \/ \E r \in Reqs : GeminiUploadReply(r)
    \/ \E r \in Reqs : GeminiWaitReply(r)
    \/ \E r \in Reqs : GeminiWaitTimer(r)
    \/ \E r \in Reqs : GeminiGetReply(r)
    \/ \E r \in Reqs : GeminiGenerateReplyOf(r, Transcripts)
    \/ \E r \in Reqs : GeminiDeleteReply(r)
    \/ \E r \in Reqs : Release(r)
    \/ Tick

SpecConc == Init /\ [][NextConc]_vars

(***************************************************************************)
(* Properties of the handler (specification Spec).                         *)
(***************************************************************************)
Done(r) == req[r].pc = "done"
Quiescent == \A r \in Reqs : req[r].pc \in {"idle", "done"}
Adapter(r) == Dispatch(req[r].name, req[r].args.model).adapter

\* C1: once a tool call that was given inline content has returned, the
\* temporary file written for that content does not exist, whatever the exit
\* path of the handler; with no call in flight no such file exists at all.
C1_InlineTempFileRemoved ==
    /\ \A r \in Reqs :
         (Done(r) /\ req[r].resolvedFile.isTemp)
             => ~existsSync(disk, req[r].resolvedFile.filePath)
    /\ Quiescent => \A p \in DOMAIN disk : p.kind # "inline"

\* The exit paths of C1, each after the temporary file was written.
C1_ExitPath(r) ==
    IF ~(Done(r) /\ "write_temp" \in req[r].fsOps) THEN "none"
    ELSE IF ~req[r].ret.isError THEN "success"
    ELSE IF req[r].ret.text = "unknown_tool" THEN "unknown_tool"
    ELSE IF req[r].ret.text = "save_failed" THEN "save_failed"
    ELSE "adapter_error"

\* A call with inline content has returned through the failed save of the
\* transcript, after the remote replied.
C1_Witness ==
    \E r \in Reqs : C1_ExitPath(r) = "save_failed" /\ req[r].remote # {}

C1_WitnessSuccess == \E r \in Reqs : C1_ExitPath(r) = "success"
C1_WitnessUnknownTool == \E r \in Reqs : C1_ExitPath(r) = "unknown_tool"
C1_WitnessAdapterError ==
    \E r \in Reqs : C1_ExitPath(r) = "adapter_error" /\ req[r].remote # {}

\* C2: every output file the transcoder created during a Gemini request is
\* deleted by the time transcribeWithGemini has returned or thrown.
C2_TranscoderOutputRemoved ==
    \A r \in Reqs :
        (Done(r) /\ req[r].wrote) => ~existsSync(disk, req[r].outputPath)

\* C6: a call of a tool that is not dispatched returns an error, the
\* unknown-tool error when its file resolves, and performs no file-system
\* operation.
C6_UnknownToolTouchesNoFile ==
    \A r \in Reqs :
        (Done(r) /\ Adapter(r) = "unknown")
            => /\ req[r].fsOps = {}
               /\ req[r].ret.isError
               /\ req[r].resolvedFile # NoResolved => req[r].ret.text = "unknown_tool"

\* C7: a call that does not carry exactly one file source, or carries inline
\* content without a file name, is rejected with a parameter error before any
\* file resolution or backend call.
C7_ExactlyOneSource ==
    \A r \in Reqs :
        LET a == req[r].args
            malformed == \/ (a.file_path = NoPath) = (a.file_content = 0)
                         \/ a.file_content # 0 /\ a.file_name = NoName
        IN  (req[r].pc # "idle" /\ malformed)
                => /\ Done(r)
                   /\ req[r].ret.isError /\ req[r].ret.prefix = ""
                   /\ ~req[r].resolved
                   /\ req[r].remote = {} /\ req[r].transcoder = 0

\* The tools of the README's table.
DocumentedTools ==
    {"gemini_transcribe", "gemini_transcribe_raw", "openai_transcribe",
     "openai_transcribe_economy", "assemblyai_transcribe"}

\* C9: every documented tool is dispatched to an adapter; a call of
\* assemblyai_transcribe with a valid file does not end in the unknown-tool
\* error.
C9_DocumentedToolsDispatched ==
    \A r \in Reqs :
        (Done(r) /\ req[r].name \in DocumentedTools /\ req[r].resolvedFile # NoResolved)
            => req[r].ret.text # "unknown_tool"

\* C10: a returned result is an error carrying only a message, or a success
\* whose title, description, transcript, timestamps, backend and model are all
\* present and non-empty.
C10_NoPartialResult ==
    \A r \in Reqs :
        Done(r) =>
            IF req[r].ret.isError
            THEN req[r].ret.response = NoResponse /\ req[r].ret.text # ""
            ELSE LET resp == req[r].ret.response
                 IN  /\ resp.title # <<>> /\ resp.description # <<>>
                     /\ resp.transcript # <<>>
                     /\ resp.timestamp >= 0 /\ resp.timestamp_readable >= 0
                     /\ resp.backend # "" /\ resp.model # ""

(***************************************************************************)
(* Properties of concurrent calls (specification SpecConc).                *)
(***************************************************************************)
\* The temporary paths a call has created or asked the transcoder to create.
TempPaths(r) ==
    (IF req[r].resolvedFile.isTemp THEN {req[r].resolvedFile.filePath} ELSE {})
    \cup (IF req[r].outputPath # NoPath THEN {req[r].outputPath} ELSE {})

\* C3: two calls in flight at the same time have distinct temporary paths.
C3_TempPathsDistinct ==
    \A r1, r2 \in Reqs :
        (r1 # r2 /\ req[r1].pc \notin {"idle", "done"} /\ req[r2].pc \notin {"idle", "done"})
            => TempPaths(r1) \cap TempPaths(r2) = {}

(***************************************************************************)
(* Properties of the AssemblyAI adapter (specification SpecAssembly).      *)
(***************************************************************************)
TimedOut == aai.pc = "done" /\ aai.outcome = Threw("timeout")

\* C4: when every status fetch is answered queued or processing,
\* pollTranscript issues exactly 120 status fetches, then fails with the
\* timeout error, and issues no further fetch.
C4_PollStopsAtCeiling ==
    /\ aai.fetches <= 120
    /\ aai.nonTerminal = 120
          => /\ aai.fetches = 120
             /\ aai.pc \in {"aai_sleep", "done"}
             /\ aai.pc = "done" => TimedOut
    /\ TimedOut => aai.fetches = 120 /\ aai.nonTerminal = 120

C4_Witness == TimedOut /\ aai.nonTerminal = 120 /\ aai.last.status = "processing"

\* C5: after N < 120 replies of queued or processing, a reply of completed
\* with non-empty text T ends pollTranscript: the adapter returns T, N + 1
\* status fetches were issued and the status fetch is the last remote call.
C5_PollReturnsCompletedText ==
    (aai.last.status = "completed" /\ aai.last.text # <<>>)
        => /\ aai.pc = "done"
           /\ ~aai.outcome.threw
           /\ aai.outcome.response.transcript = aai.last.text
           /\ aai.nonTerminal < 120
           /\ aai.fetches = aai.nonTerminal + 1
           /\ Len(aai.remote) = aai.fetches + 2
           /\ aai.remote[Len(aai.remote)] = "status"

C5_Witness ==
    /\ aai.pc = "done" /\ ~aai.outcome.threw
    /\ aai.outcome.response.transcript = HiThere
    /\ aai.nonTerminal = 119 /\ aai.fetches = 120

C5_WitnessImmediate ==
    aai.pc = "done" /\ ~aai.outcome.threw /\ aai.nonTerminal = 0 /\ aai.fetches = 1

\* The size of the file a call submitted to its adapter.
SubmittedSize(r) ==
    IF req[r].resolvedFile.isTemp THEN req[r].args.file_content
    ELSE InitDisk[req[r].resolvedFile.filePath]

\* The ceilings of the adapters the handler dispatches to.
Ceiling(adapter) ==
    IF adapter = "openai" THEN OPENAI_MAX_FILE_SIZE_BYTES ELSE GEMINI_MAX_FILE_SIZE_BYTES

\* C8: a file larger than its backend's ceiling is rejected with the
\* file-too-large error before any remote call; a file of exactly the ceiling
\* is not rejected for its size.
C8_CeilingEnforced ==
    /\ \A r \in Reqs :
         (req[r].pc # "idle" /\ req[r].resolvedFile # NoResolved
            /\ Adapter(r) \in {"openai", "gemini"})
             => /\ SubmittedSize(r) > Ceiling(Adapter(r))
                    => /\ Done(r) /\ req[r].ret.text = "file_too_large"
                       /\ req[r].remote = {} /\ req[r].transcoder = 0
                /\ SubmittedSize(r) = Ceiling(Adapter(r))
                    => req[r].ret.text # "file_too_large"
    /\ (aai.pc # "idle" /\ existsSync(disk, aai.filePath))
         => /\ disk[aai.filePath] > ASSEMBLYAI_MAX_FILE_SIZE_BYTES
                => /\ aai.pc = "done" /\ aai.outcome = Threw("file_too_large")
                   /\ aai.remote = <<>>
            /\ disk[aai.filePath] = ASSEMBLYAI_MAX_FILE_SIZE_BYTES
                => aai.outcome # Threw("file_too_large")

\* C11: a status reply of error ends pollTranscript with an error carrying
\* the backend's message, and a reply of completed without text ends it with
\* the empty-result error; no transcript is returned and the status fetch is
\* the last remote call.
C11_PollFailsOnErrorOrNoText ==
    LET failed == aai.last.status = "error"
        empty == aai.last.status = "completed" /\ aai.last.text = <<>>
    IN  (failed \/ empty)
            => /\ aai.pc = "done"
               /\ aai.outcome.threw /\ aai.outcome.response = NoResponse
               /\ failed => aai.outcome.err =
                               "Transcription failed: " \o
                               (IF aai.last.error = "" THEN "Unknown error" ELSE aai.last.error)
               /\ empty => aai.outcome.err = "no_text"
               /\ aai.fetches = aai.nonTerminal + 1
               /\ aai.remote[Len(aai.remote)] = "status"

C11_Witness ==
    /\ aai.pc = "done" /\ aai.last.status = "error" /\ aai.last.error = "bad audio"
    /\ aai.nonTerminal > 0

C11_WitnessNoText ==
    aai.pc = "done" /\ aai.last.status = "completed" /\ aai.last.text = <<>>

\* The errors of a failed remote call of a handler's request.
RemoteFailures ==
    {"remote_error", "upload_failed", "get_failed", "generate_failed"} \cup MistralFailures

\* The remote calls of the transcription protocol that may precede the failure
\* `err` of a handler's request.
CallsUpTo(err) ==
    CASE err = "remote_error" ->
           {"openai.transcriptions.create", "openrouter.chat.completions.create"}
      [] err \in MistralFailures -> {"mistral.chat.completions"}
      [] err = "upload_failed" -> {"gemini.files.upload"}
      [] err = "get_failed" -> {"gemini.files.upload", "gemini.files.get"}
      [] OTHER -> {"gemini.files.upload", "gemini.files.get", "gemini.models.generateContent"}

\* C12: once a remote call of a request has failed, the request ends with an
\* error and issues no further remote call of the transcription protocol: no
\* job creation after a failed upload, no polling after a failed job creation,
\* no status fetch after a failed one.
C12_RemoteFailureEndsRequest ==
    /\ aai.failedAt > 0
          => /\ aai.pc = "done" /\ aai.outcome.threw
             /\ Len(aai.remote) = aai.failedAt
             /\ aai.outcome.err \in {c \o f : c \in {"upload_", "create_", "status_"},
                                              f \in HttpFailures}
    /\ \A r \in Reqs :
         /\ (Done(r) /\ req[r].ret.text \in RemoteFailures)
               => /\ req[r].ret.isError
                  /\ req[r].remote \ {"gemini.files.delete"} \subseteq CallsUpTo(req[r].ret.text)
         /\ (req[r].pc = "gemini_delete" /\ req[r].pending.err \in RemoteFailures)
               => req[r].remote \ {"gemini.files.delete"} \subseteq CallsUpTo(req[r].pending.err)

C12_Witness ==
    /\ aai.pc = "done" /\ aai.outcome.err = "status_request_failed"
    /\ aai.nonTerminal > 0 /\ aai.failedAt = aai.fetches + 2

C12_WitnessUpload == aai.pc = "done" /\ aai.failedAt = 1
C12_WitnessCreate == aai.pc = "done" /\ aai.failedAt = 2
C12_WitnessVoxtral ==
    \E r \in Reqs : Done(r) /\ req[r].ret.text = "mistral_parse_error"

\* C13: the file at a caller-supplied local path is never deleted, overwritten
\* or modified; a resolved local path is not flagged temporary and a file
\* passed through preprocessing unchanged is not flagged needsCleanup.
C13_BorrowedFileUntouched ==
    /\ \A p \in DOMAIN InitDisk : existsSync(disk, p) /\ disk[p] = InitDisk[p]
    /\ \A r \in Reqs :
         /\ req[r].resolvedFile.filePath.kind = "local" => ~req[r].resolvedFile.isTemp
         /\ req[r].audioInfo.processedPath = req[r].resolvedFile.filePath
               => ~req[r].audioInfo.needsCleanup

\* A Gemini call on a local file below the preprocessing threshold has
\* returned its transcript.
C13_Witness ==
    \E r \in Reqs :
        /\ Done(r) /\ ~req[r].ret.isError
        /\ req[r].resolvedFile.filePath.kind = "local"
        /\ req[r].audioInfo.processedPath = req[r].resolvedFile.filePath
        /\ "gemini.files.delete" \in req[r].remote

\* A Gemini call on a local file above the threshold has returned, its
\* transcoded copy deleted.
C13_WitnessTranscoded ==
    \E r \in Reqs :
        /\ Done(r) /\ req[r].resolvedFile.filePath.kind = "local"
        /\ "unlink_asr" \in req[r].fsOps

(***************************************************************************)
(* Properties of model resolution (specification Spec).                    *)
(***************************************************************************)
\* The model the handler passes to the adapter, "" when it passes none.
ExplicitModel(r) == Dispatch(req[r].name, req[r].args.model).model

\* The hardcoded fallback of each adapter.
Fallback(adapter) ==
    CASE adapter = "openai" -> "gpt-4o-transcribe"
      [] adapter = "openrouter" -> "google/gemini-2.5-flash-preview-05-20"
      [] adapter = "voxtral" -> "voxtral-mini-latest"

\* The shorthand aliases of the OpenRouter adapter and what they stand for.
Qualified(adapter, model) ==
    IF adapter # "openrouter" THEN model
    ELSE CASE model = "gemini-flash" -> "google/gemini-2.5-flash-preview-05-20"
           [] model = "gemini-pro" -> "google/gemini-2.5-pro-preview"
           [] model = "gpt-4o-audio" -> "openai/gpt-4o-audio-preview"
           [] model = "voxtral-small" -> "mistralai/voxtral-small-latest"
           [] model = "voxtral-mini" -> "mistralai/voxtral-mini-latest"
           [] OTHER -> model

\* The call has reached the submission to a remote that takes a model.
Submitted(r) ==
    /\ Adapter(r) \in {"openai", "openrouter", "voxtral"}
    /\ req[r].remote # {}

Recognised(adapter, envModel) ==
    CASE adapter = "openai" -> envModel \in {"gpt-4o-transcribe", "gpt-4o-mini-transcribe"}
      [] adapter = "voxtral" -> envModel \in {"voxtral-mini-latest", "voxtral-small-latest"}
      [] OTHER -> envModel # ""

C15_WitnessEnvAlias ==
    \E r \in Reqs :
        /\ Done(r) /\ ~req[r].ret.isError /\ Adapter(r) = "openrouter"
        /\ ExplicitModel(r) = "" /\ req[r].envModel = "gemini-pro"

C15_WitnessVerbatim ==
    \E r \in Reqs :
        /\ Done(r) /\ ~req[r].ret.isError
        /\ req[r].ret.response.model = "vendor/custom-model"

(***************************************************************************)
(* Properties of the Gemini reply (specification Spec).                    *)
(***************************************************************************)
\* The reply texts that are a JSON object, bare or wrapped in a code fence.
StructuredTexts == {ObjectJson, FencedObjectJson, TitleOnlyJson, FencedTitleOnlyJson}

\* The fence markup occurs in the string s.
HasFence(s) == \E i \in 1..Len(s) : i + 2 <= Len(s) /\ SubSeq(s, i, i + 2) = Fence

\* C17: a Gemini reply text that does not parse as structured data after the
\* fence is stripped does not fail the request: the transcript is the raw text
\* and title and description are the placeholders; when the text parses, no
\* returned field holds fence markup.
C17_ParseFallback ==
    \A r \in Reqs :
        (Done(r) /\ req[r].replyText # <<>> /\ req[r].ret.text # "save_failed")
            => /\ ~req[r].ret.isError
               /\ LET resp == req[r].ret.response
                  IN  IF req[r].replyText \in StructuredTexts
                      THEN ~HasFence(resp.title) /\ ~HasFence(resp.description)
                              /\ ~HasFence(resp.transcript)
                      ELSE /\ resp.transcript = req[r].replyText
                           /\ resp.title = VoiceNote
                           /\ resp.description = TranscribedVoiceNote

(***************************************************************************)
(* Specification of file validation as a function of the file: its        *)
(* extension, whether it exists, and its size.                             *)
(***************************************************************************)
Extensions ==
    {".mp3", ".wav", ".ogg", ".flac", ".aac", ".aiff", ".m4a", ".webm", ".mpeg", ".mpga",
     ".MP3", ".WAV", ".OGG", ".FLAC", ".AAC", ".AIFF", ".M4A", ".WEBM", ".MPEG", ".MPGA",
     ".Mp3", ".Wav", ".m4A", ".txt", ".TXT", ".mp4", ".MP4", ".", ""}

FileInputs ==
    [ext : Extensions, exists : BOOLEAN,
     size : {1, OPENAI_MAX_FILE_SIZE_BYTES, OPENAI_MAX_FILE_SIZE_BYTES + 1}]

\* The path of the file under test and the file system that holds it.
CalcPath == LocalPath(1, calc.file.ext)
CalcDisk ==
    IF calc.file.exists THEN [p \in {CalcPath} |-> calc.file.size] ELSE <<>>

InitValidate ==
    /\ req = [r \in Reqs |-> IdleReq]
    /\ disk = InitDisk
    /\ now = 0
    /\ aai = IdleAai
    /\ calc \in {[NoCalc EXCEPT !.file = f] : f \in FileInputs}
    /\ sse = IdleSse

\* utils.ts 15-37: validateAudioFile with and without a ceiling, then
\* getMimeType when the file passed.
ApplyValidateAudioFile ==
    /\ calc.fn = ""
    /\ \E maxSize \in {0, OPENAI_MAX_FILE_SIZE_BYTES} :
        LET v == validateAudioFile(CalcDisk, CalcPath, maxSize)
        IN  calc' = [calc EXCEPT !.fn = "validateAudioFile", !.out = v,
                                 !.result = IF v = "ok" THEN <<getMimeType(CalcPath)>>
                                            ELSE <<>>]
    /\ UNCHANGED <<req, disk, now, aai, sse>>

\* index.ts 310-321: the handler's check of an inline payload's file name.
ApplyValidateFileExtension ==
    /\ calc.fn = ""
    /\ calc' = [calc EXCEPT !.fn = "validateFileExtension",
                            !.out = validateFileExtension(FileName("rec", calc.file.ext))]
    /\ UNCHANGED <<req, disk, now, aai, sse>>

NextValidate == ApplyValidateAudioFile \/ ApplyValidateFileExtension

SpecValidate == InitValidate /\ [][NextValidate]_vars

\* The supported extensions in every spelling, and the format of each.
FormatOf(ext) ==
    CASE ext \in {".mp3", ".MP3", ".Mp3"} -> "audio/mp3"
      [] ext \in {".wav", ".WAV", ".Wav"} -> "audio/wav"
      [] ext \in {".ogg", ".OGG"} -> "audio/ogg"
      [] ext \in {".flac", ".FLAC"} -> "audio/flac"
      [] ext \in {".aac", ".AAC"} -> "audio/aac"
      [] ext \in {".aiff", ".AIFF"} -> "audio/aiff"
      [] ext \in {".m4a", ".M4A", ".m4A"} -> "audio/mp4"
      [] ext \in {".webm", ".WEBM"} -> "audio/webm"
      [] ext \in {".mpeg", ".MPEG", ".mpga", ".MPGA"} -> "audio/mpeg"
      [] OTHER -> "none"

\* C16: an existing file within the ceiling passes validation exactly when its
\* extension, whatever its case, is one of the ten supported ones, and the
\* format inferred is the one mapped to it; every other extension, also
\* none, fails with the unsupported-format error.  The same for the name of
\* an inline payload.
C16_ExtensionDecidesValidation ==
    LET supported == FormatOf(calc.file.ext) # "none"
    IN  /\ (calc.fn = "validateAudioFile" /\ calc.file.exists)
              => /\ supported <=> calc.out \in {"ok", "file_too_large"}
                 /\ ~supported <=> calc.out = "unsupported_format"
                 /\ calc.out = "ok" => calc.result = <<FormatOf(calc.file.ext)>>
                 /\ (supported /\ calc.file.size <= OPENAI_MAX_FILE_SIZE_BYTES)
                       => calc.out = "ok"
        /\ calc.fn = "validateFileExtension"
              => (calc.out = IF supported THEN "ok" ELSE "unsupported_format")

\* An upper-case extension was accepted and its format inferred.
C16_Witness ==
    /\ calc.fn = "validateAudioFile" /\ calc.file.ext = ".M4A"
    /\ calc.out = "ok" /\ calc.result = <<"audio/mp4">>

C16_WitnessRejected ==
    calc.fn = "validateAudioFile" /\ calc.file.ext = "" /\ calc.out = "unsupported_format"

(***************************************************************************)
(* Specification of the text functions: generateTitle, generateDescription *)
(* and slugify applied to a text.                                          *)
(***************************************************************************)
MaxLen == 3
MaxTokens == 8

ShortAlphabet == {"a", "B", "_", "-", " ", ".", "?", "\\u00e9"}
ShortTexts == UNION {[1..n -> ShortAlphabet] : n \in 0..MaxLen}

\* n times the character c
Repeat(c, n) == [i \in 1..n |-> c]

\* The tokens t1, t2, ... tn separated by sep.
Digit(i) == CHOOSE c \in Digits : c = ToString(i % 10)
RECURSIVE TokenText(_, _, _)
TokenText(i, n, sep) ==
    IF i > n THEN <<>>
    ELSE <<"t", Digit(i)>> \o (IF i < n THEN sep ELSE <<>>) \o TokenText(i + 1, n, sep)

TokenTexts ==
    { lead \o TokenText(1, n, sep) \o trail :
        n \in 0..MaxTokens, sep \in {<<" ">>, <<" ", "\n">>},
        lead \in {<<>>, <<" ">>}, trail \in {<<>>, <<"\n">>} }

\* Texts around the limits of the description and of the slug.
LongTexts ==
    { Repeat(c, n) \o tail :
        c \in {"a", "A", "-", " "},
        n \in {SlugLimit - 1, SlugLimit, SlugLimit + 1,
               DescriptionLimit - 1, DescriptionLimit, DescriptionLimit + 1},
        tail \in {<<>>, <<".">>, <<"!", " ", "b">>, <<" ", "b", "?">>} }

Sentences ==
    { <<"H", "i">> \o mark \o rest :
        mark \in {<<>>, <<".">>, <<"!">>, <<"?">>},
        rest \in {<<>>, <<" ", "M", "o", "r", "e", ".">>} }

Texts == ShortTexts \cup TokenTexts \cup LongTexts \cup Sentences \cup {HiThere}

InitText ==
    /\ req = [r \in Reqs |-> IdleReq]
    /\ disk = InitDisk
    /\ now = 0
    /\ aai = IdleAai
    /\ calc \in {[NoCalc EXCEPT !.text = t] : t \in Texts}
    /\ sse = IdleSse

ApplyGenerateTitle ==
    /\ calc.fn = ""
    /\ calc' = [calc EXCEPT !.fn = "generateTitle", !.result = generateTitle(calc.text)]
    /\ UNCHANGED <<req, disk, now, aai, sse>>

ApplyGenerateDescription ==
    /\ calc.fn = ""
    /\ calc' = [calc EXCEPT !.fn = "generateDescription",
                            !.result = generateDescription(calc.text)]
    /\ UNCHANGED <<req, disk, now, aai, sse>>

\* slugify, and slugify again on its result
ApplySlugify ==
    /\ calc.fn = ""
    /\ calc' = [calc EXCEPT !.fn = "slugify", !.result = slugify(calc.text),
                            !.again = slugify(slugify(calc.text))]
    /\ UNCHANGED <<req, disk, now, aai, sse>>

\* saveTranscriptToFile with the text as the title: the name of the document
ApplySaveTranscriptToFile ==
    /\ calc.fn = ""
    /\ calc' = [calc EXCEPT !.fn = "saveTranscriptToFile",
                            !.result = saveTranscriptToFile("/out", calc.text).file]
    /\ UNCHANGED <<req, disk, now, aai, sse>>

NextText ==
    \/ ApplyGenerateTitle
    \/ ApplyGenerateDescription
    \/ ApplySlugify
    \/ ApplySaveTranscriptToFile

SpecText == InitText /\ [][NextText]_vars

(***************************************************************************)
(* Claims about the text functions, under SpecText.                        *)
(***************************************************************************)
\* The positions of the sentence-terminal marks of a text.
Marks(text) == {i \in 1..Len(text) : text[i] \in SentenceEnd}

\* The whitespace-separated tokens of a text: its maximal runs of characters
\* that are not white space.
Tokens(text) == SelectSeq(splitWhitespace(text), LAMBDA piece : piece # <<>>)

\* C18: the description of a transcript is its text up to and including the
\* first sentence-terminal mark, with the mark that occurs; when that segment
\* is longer than 100 characters it is the first 100 characters and an
\* ellipsis.  Surrounding white space is not compared, and a segment of 100
\* characters before its mark may be taken either way.
C18_DescriptionKeepsMark ==
    (calc.fn = "generateDescription" /\ Marks(calc.text) # {}) =>
        LET first == MinOf(Marks(calc.text))
        IN  /\ first <= DescriptionLimit =>
                 trim(calc.result) = trim(SubSeq(calc.text, 1, first))
            /\ first > DescriptionLimit + 1 =>
                 trim(calc.result) = trim(SubSeq(calc.text, 1, DescriptionLimit) \o Ellipsis)

\* The part of C18 the code meets: a segment longer than 100 characters gives
\* its first 100 characters and an ellipsis.
C18_LongSegmentTruncated ==
    (calc.fn = "generateDescription" /\ Marks(calc.text) # {}
        /\ MinOf(Marks(calc.text)) > DescriptionLimit + 1) =>
        calc.result = trim(SubSeq(calc.text, 1, DescriptionLimit)) \o Ellipsis

\* A transcript whose first mark is a question mark was described.
C18_WitnessOtherMark ==
    /\ calc.fn = "generateDescription" /\ Marks(calc.text) # {}
    /\ calc.text[MinOf(Marks(calc.text))] = "?"
    /\ calc.result[Len(calc.result)] = "."

C18_WitnessLong ==
    /\ calc.fn = "generateDescription" /\ Marks(calc.text) # {}
    /\ MinOf(Marks(calc.text)) > DescriptionLimit + 1

\* C19: the title of a transcript is its first six whitespace-separated
\* tokens joined by single spaces, followed by an ellipsis exactly when the
\* transcript has more than six tokens; the title of the empty transcript is
\* the placeholder.  A transcript of white space only is not constrained.
C19_TitleFirstSixTokens ==
    calc.fn = "generateTitle" =>
        LET tokens == Tokens(calc.text)
        IN  /\ calc.text = <<>> => calc.result = AudioTranscription
            /\ tokens # <<>> =>
                 calc.result =
                    joinSpace(SubSeq(tokens, 1, Min(TitleWords, Len(tokens))))
                       \o (IF Len(tokens) > TitleWords THEN Ellipsis ELSE <<>>)

\* The part of C19 the code meets: transcripts without leading or trailing
\* white space.
C19_TitleOfTrimmedText ==
    (calc.fn = "generateTitle" /\ trim(calc.text) = calc.text) =>
        LET tokens == Tokens(calc.text)
        IN  calc.result =
               IF tokens = <<>> THEN AudioTranscription
               ELSE joinSpace(SubSeq(tokens, 1, Min(TitleWords, Len(tokens))))
                       \o (IF Len(tokens) > TitleWords THEN Ellipsis ELSE <<>>)

\* Exactly six tokens and a trailing line break were given an ellipsis.
C19_WitnessSixAndNewline ==
    /\ calc.fn = "generateTitle" /\ Len(Tokens(calc.text)) = TitleWords
    /\ Len(calc.result) > 3
    /\ SubSeq(calc.result, Len(calc.result) - 2, Len(calc.result)) = Ellipsis

C19_WitnessMoreThanSix ==
    /\ calc.fn = "generateTitle" /\ trim(calc.text) = calc.text
    /\ Len(Tokens(calc.text)) > TitleWords

\* The characters a slug may hold according to C20.
SlugChars == Range(LowerCase) \cup Digits \cup {"-"}

\* C20: slugify(slugify(s)) = slugify(s), slugify(s) has at most 80
\* characters, and slugify(s) has no character outside [a-z0-9-].
C20_SlugIdempotentBoundedCharset ==
    calc.fn = "slugify" =>
        /\ calc.again = calc.result
        /\ Len(calc.result) <= SlugLimit
        /\ \A i \in 1..Len(calc.result) : calc.result[i] \in SlugChars

\* The part of C20 the code meets: idempotence, the length, and the
\* characters of \w and the hyphen.
C20_SlugIdempotentBounded ==
    calc.fn = "slugify" =>
        /\ calc.again = calc.result
        /\ Len(calc.result) <= SlugLimit
        /\ \A i \in 1..Len(calc.result) :
              calc.result[i] \in SlugChars \cup {"_"}

\* A text with an underscore was slugified.
C20_WitnessUnderscore ==
    /\ calc.fn = "slugify"
    /\ \E i \in 1..Len(calc.result) : calc.result[i] = "_"

C20_WitnessCut ==
    /\ calc.fn = "slugify" /\ Len(calc.text) > SlugLimit /\ Len(calc.result) = SlugLimit

(***************************************************************************)
(* Claims about the saved document, under Spec.                            *)
(***************************************************************************)
\* The adapter of a returned call settled with a response.
Transcribed(r) ==
    Done(r) /\ (~req[r].ret.isError \/ req[r].ret.text = "save_failed")

\* C21: a transcript document is written, and saved_to is in the response,
\* exactly when the request supplies an output directory and the
\* transcription succeeded; without an output directory, after a failed
\* transcription and for an unknown tool nothing is written and no saved_to
\* is returned.  A write the file system refuses leaves no document and
\* ends the call with an error result.
C21_SavedExactlyWhenAsked ==
    \A r \in Reqs : Done(r) =>
        /\ req[r].ret.saved_to = req[r].doc
        /\ ("write_doc" \in req[r].fsOps) = (req[r].doc # NoDoc)
        /\ (req[r].doc # NoDoc) =
              (req[r].args.output_dir # "" /\ Transcribed(r)
                  /\ req[r].ret.text # "save_failed")
        /\ req[r].doc # NoDoc =>
              /\ req[r].doc.dir = req[r].args.output_dir
              /\ req[r].doc.title = req[r].ret.response.title
              /\ ~req[r].ret.isError

\* A call with an output directory returned its response with saved_to.
C21_Witness ==
    \E r \in Reqs :
        /\ Done(r) /\ req[r].args.output_dir # "" /\ ~req[r].ret.isError
        /\ req[r].doc # NoDoc /\ req[r].ret.saved_to = req[r].doc

C21_WitnessNoDirectory ==
    \E r \in Reqs :
        Done(r) /\ req[r].args.output_dir = "" /\ ~req[r].ret.isError /\ req[r].doc = NoDoc

C21_WitnessFailed ==
    \E r \in Reqs :
        /\ Done(r) /\ req[r].args.output_dir # "" /\ req[r].ret.isError
        /\ req[r].remote # {} /\ req[r].ret.text # "save_failed" /\ req[r].doc = NoDoc

C21_WitnessUnknownTool ==
    \E r \in Reqs :
        /\ Done(r) /\ req[r].args.output_dir # "" /\ req[r].ret.text = "unknown_tool"
        /\ req[r].doc = NoDoc

(***************************************************************************)
(* Claims about the order of the AssemblyAI adapter's steps, under         *)
(* SpecAssembly.                                                           *)
(***************************************************************************)
\* The remote calls are upload, create, then status fetches, and a response
\* is built only after a status fetch returned completed.
AssemblyOrder ==
    /\ \A i \in 1..Len(aai.remote) :
          aai.remote[i] = (IF i = 1 THEN "upload" ELSE IF i = 2 THEN "create" ELSE "status")
    /\ (aai.pc = "done" /\ ~aai.outcome.threw) =>
          /\ Len(aai.remote) >= 3
          /\ aai.last.status = "completed"
          /\ aai.outcome.response.transcript = aai.last.text

\* C22: the AssemblyAI adapter runs upload, create job, poll in that order:
\* job creation is issued only after the upload returned success with a
\* reference URL, the first status fetch only after job creation returned a
\* job id, and a response is built only after a status fetch returned
\* completed.
C22_StepsInOrderWithReferences ==
    /\ AssemblyOrder
    /\ Len(aai.remote) >= 2 => aai.uploadUrl # ""
    /\ Len(aai.remote) >= 3 => aai.transcriptId # ""

\* The part of C22 the code meets: the order of the steps.
C22_StepsInOrder == AssemblyOrder

\* Job creation was issued after an upload reply of success without a URL.
C22_WitnessNoUrl ==
    Len(aai.remote) >= 2 /\ aai.remote[2] = "create" /\ aai.uploadUrl = ""

C22_WitnessResponse ==
    aai.pc = "done" /\ ~aai.outcome.threw /\ Len(aai.remote) > 3

(***************************************************************************)
(* Claims about the Gemini adapter's steps, under Spec.                    *)
(***************************************************************************)
Generation == "gemini.models.generateContent"

\* C23: the generation call is issued only after the uploaded artifact was
\* observed in a state that is neither PROCESSING nor FAILED; when the
\* artifact is observed FAILED the request fails with the processing error
\* and no generation call is issued.
C23_GenerationAfterProcessing ==
    \A r \in Reqs :
        /\ Generation \in req[r].remote =>
              /\ "gemini.files.get" \in req[r].remote
              /\ req[r].fileState \in FileStates \ {"PROCESSING", "FAILED"}
        /\ req[r].fileState = "FAILED" =>
              /\ Generation \notin req[r].remote
              /\ req[r].pc \in {"gemini_delete", "done"}
              /\ req[r].pc = "gemini_delete" =>
                    req[r].pending = Threw("file_processing_failed")
              /\ Done(r) =>
                    req[r].ret = ErrorResult("Transcription failed: ", "file_processing_failed")
        /\ req[r].fileState = "PROCESSING" => Generation \notin req[r].remote

\* The generation call was issued for an artifact observed ACTIVE.
C23_Witness ==
    \E r \in Reqs : Generation \in req[r].remote /\ req[r].fileState = "ACTIVE"

C23_WitnessFailed ==
    \E r \in Reqs :
        /\ Done(r) /\ req[r].fileState = "FAILED"
        /\ req[r].ret.text = "file_processing_failed"

\* The result the handler makes of an adapter's outcome (index.ts 388-423).
ResultOf(r, outcome) ==
    IF outcome.threw THEN req[r].ret = ErrorResult("Transcription failed: ", outcome.err)
    ELSE \/ req[r].ret = SuccessResult(outcome.response, req[r].doc)
         \/ req[r].ret = ErrorResult("Transcription failed: ", "save_failed")

\* The outcome of transcribeWithGemini's try block, from what the call saw.
PrimaryError(r) ==
    IF req[r].fileState = "FAILED" THEN "file_processing_failed"
    ELSE IF Generation \notin req[r].remote THEN "get_failed"
    ELSE IF req[r].replyText = <<>> THEN "generate_failed_or_no_text"
    ELSE "none_or_type_error"

\* C24: once the upload returned an artifact name, the deletion of the
\* artifact is attempted exactly once before transcribeWithGemini returns or
\* throws, on every exit path; a failed deletion or a failed removal of the
\* local temporary file changes neither the result nor the primary error;
\* after a failed upload no deletion is attempted.
C24_ArtifactDeletedOnce ==
    \A r \in Reqs :
        /\ req[r].deletes =
              (IF req[r].uploadedFileName /\ req[r].pc \in {"gemini_delete", "done"}
               THEN 1 ELSE 0)
        /\ ("gemini.files.delete" \in req[r].remote) = (req[r].deletes = 1)
        /\ (Done(r) /\ req[r].uploadedFileName) =>
              /\ ResultOf(r, req[r].pending)
              /\ req[r].pending.threw =>
                    CASE PrimaryError(r) = "file_processing_failed" ->
                            req[r].pending.err = "file_processing_failed"
                      [] PrimaryError(r) = "get_failed" -> req[r].pending.err = "get_failed"
                      [] PrimaryError(r) = "generate_failed_or_no_text" ->
                            req[r].pending.err \in {"generate_failed", "no_text"}
                      [] OTHER -> req[r].pending.err = "type_error"
              /\ ~req[r].pending.threw =>
                    /\ PrimaryError(r) = "none_or_type_error"
                    /\ req[r].pending = GeminiResult(req[r].replyText, req[r].model,
                                                     req[r].pending.response.timestamp)
        /\ (Done(r) /\ req[r].unlinkFailed) => ResultOf(r, req[r].pending)

\* A successful call whose deletion of the artifact failed.
C24_Witness ==
    \E r \in Reqs :
        /\ Done(r) /\ req[r].uploadedFileName /\ req[r].deleteFailed
        /\ ~req[r].ret.isError /\ req[r].deletes = 1

C24_WitnessFailedArtifact ==
    \E r \in Reqs :
        /\ Done(r) /\ req[r].deleteFailed /\ req[r].fileState = "FAILED"
        /\ req[r].ret.text = "file_processing_failed"

C24_WitnessGenerationError ==
    \E r \in Reqs :
        Done(r) /\ req[r].deleteFailed /\ req[r].ret.text = "generate_failed"

C24_WitnessEmptyReply ==
    \E r \in Reqs :
        Done(r) /\ req[r].deleteFailed /\ req[r].ret.text = "no_text"

C24_WitnessUnlinkFailed ==
    \E r \in Reqs :
        /\ Done(r) /\ req[r].unlinkFailed /\ req[r].deleteFailed
        /\ ~req[r].ret.isError /\ existsSync(disk, req[r].audioInfo.processedPath)

C24_WitnessUploadFailed ==
    \E r \in Reqs :
        /\ Done(r) /\ req[r].ret.text = "upload_failed" /\ req[r].deletes = 0
        /\ "gemini.files.upload" \in req[r].remote

(***************************************************************************)
(* Claims about the fields of a response.                                  *)
(***************************************************************************)
\* The title and description of a response are those derived from its
\* transcript by the adapters' common helpers.
Derived(response) ==
    /\ response.title = generateTitle(response.transcript)
    /\ response.description = generateDescription(response.transcript)

\* C25: title and description are the same function of the transcript text
\* for every backend: the responses of the Gemini, OpenAI, OpenRouter,
\* Voxtral and AssemblyAI adapters for one transcript text carry the same
\* title and description.
C25_SameDerivationForEveryBackend ==
    /\ \A r \in Reqs : (Done(r) /\ ~req[r].ret.isError) => Derived(req[r].ret.response)
    /\ (aai.pc = "done" /\ ~aai.outcome.threw) => Derived(aai.outcome.response)

\* The part of C25 the code meets: the adapters other than Gemini.
C25_HeuristicBackendsAgree ==
    /\ \A r \in Reqs :
          (Done(r) /\ ~req[r].ret.isError /\ Adapter(r) # "gemini") =>
              Derived(req[r].ret.response)
    /\ (aai.pc = "done" /\ ~aai.outcome.threw) => Derived(aai.outcome.response)

\* A Gemini response whose title is not the one the other adapters derive.
C25_WitnessGemini ==
    \E r \in Reqs :
        /\ Done(r) /\ ~req[r].ret.isError /\ Adapter(r) = "gemini"
        /\ req[r].ret.response.transcript = HiThere
        /\ req[r].ret.response.title # generateTitle(HiThere)

C25_WitnessOpenAI ==
    \E r \in Reqs :
        /\ Done(r) /\ ~req[r].ret.isError /\ Adapter(r) = "openai"
        /\ req[r].ret.response.transcript = HiThere

(***************************************************************************)
(* Claims about the name of the saved document, under SpecText.            *)
(***************************************************************************)
\* C26: the name of the saved document is never the bare extension '.md':
\* whenever the slug of the title is empty (an empty title, or a title made
\* only of characters that slugging strips) the generic slug names the file.
C26_NameNeverBareExtension ==
    calc.fn = "saveTranscriptToFile" =>
        /\ calc.result # MarkdownExt
        /\ slugify(calc.text) = <<>> => calc.result = TranscriptSlug \o MarkdownExt

\* The part of C26 the code meets: the empty title.
C26_EmptyTitleNamedTranscript ==
    (calc.fn = "saveTranscriptToFile" /\ calc.text = <<>>) =>
        calc.result = TranscriptSlug \o MarkdownExt

\* A title of stripped characters only was given a file name.
C26_WitnessStripped ==
    /\ calc.fn = "saveTranscriptToFile" /\ calc.text # <<>>
    /\ slugify(calc.text) = <<>> /\ calc.result = MarkdownExt

C26_WitnessEmptyTitle ==
    calc.fn = "saveTranscriptToFile" /\ calc.text = <<>>

(***************************************************************************)
(* Claims about the preparation of the audio file, under Spec.             *)
(***************************************************************************)
\* prepareAudioFile has returned to transcribeWithGemini.
Prepared(r) == req[r].audioInfo # NoAudioInfo

\* C27: prepareAudioFile with a file of at most the threshold invokes no
\* transcoder and returns the input path with needsCleanup = false; with a
\* file above the threshold it invokes the transcoder exactly once, with the
\* mono / 16 kHz / 32 kbps settings, and returns a new path, different from
\* the input path, with needsCleanup = true.
C27_PrepareAudioFile ==
    \A r \in Reqs : (Adapter(r) = "gemini" /\ req[r].resolved /\ req[r].pc # "idle") =>
        LET input == req[r].resolvedFile.filePath
            small == SubmittedSize(r) <= GEMINI_DOWNSAMPLE_THRESHOLD_BYTES
        IN  /\ req[r].transcoder \in {0, 1}
            /\ req[r].transcoder = 1 =>
                  ~small /\ req[r].ffmpegArgs = downsampleSettings
            /\ Prepared(r) =>
                  IF small
                  THEN /\ req[r].transcoder = 0
                       /\ req[r].audioInfo.processedPath = input
                       /\ ~req[r].audioInfo.needsCleanup
                  ELSE /\ req[r].transcoder = 1
                       /\ req[r].audioInfo.processedPath # input
                       /\ req[r].audioInfo.processedPath = req[r].outputPath
                       /\ req[r].audioInfo.needsCleanup

\* A file of exactly the threshold was passed through.
C27_Witness ==
    \E r \in Reqs :
        /\ Adapter(r) = "gemini" /\ Prepared(r)
        /\ SubmittedSize(r) = GEMINI_DOWNSAMPLE_THRESHOLD_BYTES
        /\ req[r].transcoder = 0

C27_WitnessTranscoded ==
    \E r \in Reqs :
        /\ Adapter(r) = "gemini" /\ Prepared(r)
        /\ SubmittedSize(r) = GEMINI_DOWNSAMPLE_THRESHOLD_BYTES + 1
        /\ req[r].transcoder = 1 /\ req[r].audioInfo.needsCleanup

(***************************************************************************)
(* Specification of the handler under fair scheduling: every awaited       *)
(* remote call, transcoder process and timer eventually settles.           *)
(***************************************************************************)
LiveArgs ==
    { [NoArgs EXCEPT !.file_path = LocalPath(1, ".wav")],
      [NoArgs EXCEPT !.file_path = LocalPath(3, ".wav"), !.output_dir = "/out"] }

NextLive ==
    \/ \E r \in Reqs : Call(r, ToolNames, LiveArgs, 1)
    \/ \E r \in Reqs : Replies(r)
    \/ \E r \in Reqs : Release(r)

\* The event loop runs the continuation of every settled promise and fired
\* timer.
LiveFairness == \A r \in Reqs : WF_vars(Replies(r))

SpecLive == Init /\ [][NextLive]_vars /\ LiveFairness

\* A call is awaiting something.
Pending(r) == req[r].pc \notin {"idle", "done"}

\* C28: when every remote call and the transcoder eventually return, every
\* tool call eventually returns a success or an error result: each polling
\* loop performs a bounded number of fetches even when the remote never
\* leaves its transient state.
C28_EveryCallReturns ==
    \A r \in Reqs : Pending(r) ~> Done(r)

\* The part of C28 the code meets in the handler: the adapters other than
\* Gemini, and Gemini calls whose artifact is no longer PROCESSING.
C28_CallsWithoutWaitReturn ==
    \A r \in Reqs :
        (req[r].pc \in {"await_openai", "await_openrouter", "await_voxtral",
                        "gemini_get", "gemini_generate", "gemini_delete"}) ~> Done(r)

(***************************************************************************)
(* Claims about the Gemini reply, under Spec.                              *)
(***************************************************************************)
\* The try block of transcribeWithGemini has ended on a reply with text.
Replied(r) ==
    /\ Adapter(r) = "gemini" /\ req[r].replyText # <<>>
    /\ req[r].pc \in {"gemini_delete", "done"}

\* The response made of a reply text: the parsed members, or the
\* placeholders and the raw text for the members that are missing.
Filled(r) ==
    LET text == req[r].replyText
        parsed == parseJsonResponse(text)
        response == req[r].pending.response
    IN  /\ ~req[r].pending.threw
        /\ response.title # <<>> /\ response.description # <<>>
        /\ response.transcript # <<>>
        /\ response.title = OrElse(parsed.title, VoiceNote)
        /\ response.description = OrElse(parsed.description, TranscribedVoiceNote)
        /\ response.transcript = OrElse(parsed.transcript, text)

\* C29: for every non-empty Gemini reply text transcribeWithGemini returns a
\* response rather than throwing, with non-empty title, description and
\* transcript, the missing fields being the placeholders and the raw text,
\* also when the reply parses to a value that is no object with those fields
\* ({}, a number, null).
C29_EveryReplyAnswered ==
    \A r \in Reqs : Replied(r) => Filled(r)

\* The part of C29 the code meets: every reply text but null.
C29_NonNullRepliesAnswered ==
    \A r \in Reqs : (Replied(r) /\ req[r].replyText # NullJson) => Filled(r)

\* The reply null ended the call with a TypeError.
C29_WitnessNull ==
    \E r \in Reqs :
        /\ Done(r) /\ Replied(r) /\ req[r].replyText = NullJson
        /\ req[r].ret = ErrorResult("Transcription failed: ", "type_error")

C29_WitnessNumber ==
    \E r \in Reqs :
        /\ Done(r) /\ Replied(r) /\ req[r].replyText = NumberJson
        /\ req[r].ret.response.title = VoiceNote

C29_WitnessEmptyObject ==
    \E r \in Reqs :
        /\ Done(r) /\ Replied(r) /\ req[r].replyText = EmptyObjectJson
        /\ req[r].ret.response.transcript = EmptyObjectJson

(***************************************************************************)
(* Specification of SSE mode: connections open and close and messages are  *)
(* posted, with the id of an open, a closed or no connection.              *)
(***************************************************************************)
SessionIds == 0..MaxSessions

NextSse ==
    \/ SseConnect
    \/ \E c \in sse.open : SseClose(c)
    \/ \E sessionId \in SessionIds : SsePost(sessionId)

SpecSse == Init /\ [][NextSse]_vars

\* C30: the session map holds exactly one entry per SSE connection that was
\* opened and has not closed, each connection having its own server
\* instance; a POST to /message is handed to a transport only if its
\* sessionId is a key of the map at that moment, and otherwise (unknown id,
\* id of a closed connection) gets 404 with no transport invoked.
C30_SessionMapTracksConnections ==
    /\ DOMAIN sse.transports = {c.session : c \in sse.open}
    /\ Cardinality(DOMAIN sse.transports) = Cardinality(sse.open)
    /\ \A c \in sse.open : sse.transports[c.session] = c.transport
    /\ \A c1, c2 \in sse.open :
          c1 # c2 => /\ c1.server # c2.server
                     /\ c1.transport # c2.transport
                     /\ c1.session # c2.session
    /\ (DOMAIN sse.transports) \cap sse.closed = {}
    /\ sse.last # NoPost =>
          IF sse.last.sessionId \in sse.last.keys
          THEN sse.last.status = 200 /\ sse.last.transport = sse.last.sessionId
          ELSE sse.last.status = 404 /\ sse.last.transport = 0

\* Two connections are open, one has closed, and a POST with the closed
\* connection's id got 404.
C30_Witness ==
    /\ Cardinality(sse.open) = 2 /\ sse.closed # {}
    /\ sse.last.sessionId \in sse.closed /\ sse.last.status = 404

C30_WitnessHanded ==
    /\ sse.last.status = 200 /\ sse.closed # {}
    /\ \E c \in sse.open : c.session = sse.last.sessionId

C30_WitnessUnknown ==
    sse.last.status = 404 /\ sse.last.sessionId = 0 /\ sse.open # {}

====
